---- MODULE Spec2Model ----
(***************************************************************************)
(* A model of loxide: the scanner, the single-pass bytecode compiler and   *)
(* the stack VM.  Source text is a sequence of one-character strings,      *)
(* bytecode is a sequence of bytes 0..255, offsets are 0-based as in the   *)
(* source (a sequence s is indexed s[off + 1]).                            *)
(***************************************************************************)
EXTENDS Integers, Sequences, FiniteSets, TLC

(***************************************************************************)
(* Numbers.  An f64 is modelled as an exact rational n/d in lowest terms   *)
(* (d > 0), or NaN, or an infinity (n = 1 or n = -1).  IEEE rounding is    *)
(* not modelled and -0.0 is identified with 0.0.                           *)
(***************************************************************************)
Abs(x) == IF x < 0 THEN -x ELSE x

RECURSIVE Gcd(_, _)
Gcd(a, b) == IF b = 0 THEN a ELSE Gcd(b, a % b)

Sign(x) == IF x < 0 THEN -1 ELSE IF x = 0 THEN 0 ELSE 1

NaN == [t |-> "num", k |-> "nan", n |-> 0, d |-> 1]

Inf(s) == [t |-> "num", k |-> "inf", n |-> s, d |-> 1]

Fin(n, d) ==
    LET g == Gcd(Abs(n), Abs(d))
        s == IF d < 0 THEN -1 ELSE 1
    IN  [t |-> "num", k |-> "fin", n |-> (s * n) \div g, d |-> (s * d) \div g]

Number(i) == Fin(i, 1)

NumNeg(a) ==
    CASE a.k = "nan" -> NaN
      [] a.k = "inf" -> Inf(-a.n)
      [] OTHER       -> Fin(-a.n, a.d)

NumAdd(a, b) ==
    CASE a.k = "nan" \/ b.k = "nan" -> NaN
      [] a.k = "inf" /\ b.k = "inf" -> IF a.n = b.n THEN a ELSE NaN
      [] a.k = "inf" -> a
      [] b.k = "inf" -> b
      [] OTHER       -> Fin(a.n * b.d + b.n * a.d, a.d * b.d)

NumSub(a, b) == NumAdd(a, NumNeg(b))

NumMul(a, b) ==
    CASE a.k = "nan" \/ b.k = "nan" -> NaN
      [] a.k = "inf" \/ b.k = "inf" ->
            IF a.n = 0 \/ b.n = 0 THEN NaN ELSE Inf(Sign(a.n) * Sign(b.n))
      [] OTHER       -> Fin(a.n * b.n, a.d * b.d)

NumDiv(a, b) ==
    CASE a.k = "nan" \/ b.k = "nan" -> NaN
      [] a.k = "inf" /\ b.k = "inf" -> NaN
      [] a.k = "inf" -> Inf(IF b.n < 0 THEN -a.n ELSE a.n)
      [] b.k = "inf" -> Fin(0, 1)
      [] b.n = 0     -> IF a.n = 0 THEN NaN ELSE Inf(Sign(a.n))
      [] OTHER       -> Fin(a.n * b.d, a.d * b.n)

\* f64 comparison: every comparison with NaN is false.
NumEq(a, b) ==
    /\ a.k # "nan"
    /\ b.k # "nan"
    /\ a.k = b.k
    /\ a.n = b.n
    /\ a.d = b.d

NumLess(a, b) ==
    CASE a.k = "nan" \/ b.k = "nan" -> FALSE
      [] a.k = "inf" /\ b.k = "inf" -> a.n < b.n
      [] a.k = "inf" -> a.n < 0
      [] b.k = "inf" -> b.n > 0
      [] OTHER       -> a.n * b.d < b.n * a.d

NumGreater(a, b) == NumLess(b, a)

(***************************************************************************)
(* Values and objects.                                                     *)
(***************************************************************************)
Nil == [t |-> "nil"]

Boolean(b) == [t |-> "bool", b |-> b]

\* Object(String(s)): s is the text, a sequence of characters.
String(s) == [t |-> "str", s |-> s]

\* Object(Function(f)): f is a FunctionObject [arity, chunk, name].
Function(f) == [t |-> "fun", f |-> f]

\* Object(NativeFunction(p)): p names the host function pointed at.
NativeFunction(p) == [t |-> "native", p |-> p]

IsNumber(v) == v.t = "num"

IsString(v) == v.t = "str"

is_falsey_zero(v) ==
    CASE v.t = "bool" -> ~v.b
      [] v.t = "nil"  -> TRUE
      [] v.t = "num"  -> v.k = "fin" /\ v.n = 0
      [] OTHER        -> FALSE

is_falsey(v) ==
    CASE v.t = "bool" -> ~v.b
      [] v.t = "nil"  -> TRUE
      [] OTHER        -> FALSE

(***************************************************************************)
(* Chunk.                                                                  *)
(***************************************************************************)
EmptyChunk == [code |-> <<>>, lines |-> <<>>, constants |-> <<>>]

\* A write that compares the line with the first entry's, not the last's.
write_first_entry(chunk, byte, line) ==
    LET code == Append(chunk.code, byte)
        same == Len(chunk.lines) > 0 /\ chunk.lines[1].line = line
    IN  [chunk EXCEPT
            !.code = code,
            !.lines = IF same THEN @
                      ELSE Append(@, [start_offset |-> Len(code) - 1, line |-> line])]

write(chunk, byte, line) ==
    LET code == Append(chunk.code, byte)
        same == Len(chunk.lines) > 0 /\ chunk.lines[Len(chunk.lines)].line = line
    IN  [chunk EXCEPT
            !.code = code,
            !.lines = IF same THEN @
                      ELSE Append(@, [start_offset |-> Len(code) - 1, line |-> line])]

RECURSIVE write_slice(_, _, _)
write_slice(chunk, data, line) ==
    IF data = <<>> THEN chunk
    ELSE write_slice(write(chunk, Head(data), line), Tail(data), line)

\* The chunk with the constant appended, and the constant's 0-based index.
add_constant(chunk, value) ==
    [chunk |-> [chunk EXCEPT !.constants = Append(@, value)],
     index |-> Len(chunk.constants)]

\* A search that falls back on the first entry, not the last.
RECURSIVE line_scan_first(_, _, _)
line_scan_first(lines, offset, i) ==
    IF i > Len(lines) THEN lines[1].line
    ELSE IF lines[i].start_offset > offset THEN lines[i - 1].line
    ELSE line_scan_first(lines, offset, i + 1)

RECURSIVE line_scan(_, _, _)
line_scan(lines, offset, i) ==
    IF i > Len(lines) THEN lines[Len(lines)].line
    ELSE IF lines[i].start_offset > offset THEN lines[i - 1].line
    ELSE line_scan(lines, offset, i + 1)

line_at(chunk, offset) == line_scan(chunk.lines, offset, 1)

(***************************************************************************)
(* Value equality: the derived PartialEq of Value, Object and              *)
(* FunctionObject, compared variant by variant and field by field.         *)
(***************************************************************************)
RECURSIVE ValueEq(_, _)
RECURSIVE ConstantsEq(_, _, _)

ChunkEq(a, b) ==
    /\ a.code = b.code
    /\ a.lines = b.lines
    /\ Len(a.constants) = Len(b.constants)
    /\ ConstantsEq(a.constants, b.constants, 1)

FunctionObjectEq(f, g) ==
    /\ f.arity = g.arity
    /\ ChunkEq(f.chunk, g.chunk)
    /\ f.name = g.name

ConstantsEq(xs, ys, i) ==
    IF i > Len(xs) THEN TRUE
    ELSE ValueEq(xs[i], ys[i]) /\ ConstantsEq(xs, ys, i + 1)

ValueEq_truthy(a, b) ==
    CASE a.t = "num" /\ b.t = "num"       -> NumEq(a, b)
      [] a.t = "bool" /\ b.t = "bool"     -> a.b = b.b
      [] a.t = "nil" /\ b.t = "nil"       -> TRUE
      [] a.t = "nil" /\ b.t = "bool"      -> ~b.b
      [] a.t = "bool" /\ b.t = "nil"      -> ~a.b
      [] a.t = "str" /\ b.t = "str"       -> a.s = b.s
      [] a.t = "fun" /\ b.t = "fun"       -> FunctionObjectEq(a.f, b.f)
      [] a.t = "native" /\ b.t = "native" -> a.p = b.p
      [] OTHER                            -> FALSE

ValueEq(a, b) ==
    CASE a.t = "num" /\ b.t = "num"       -> NumEq(a, b)
      [] a.t = "bool" /\ b.t = "bool"     -> a.b = b.b
      [] a.t = "nil" /\ b.t = "nil"       -> TRUE
      [] a.t = "str" /\ b.t = "str"       -> a.s = b.s
      [] a.t = "fun" /\ b.t = "fun"       -> FunctionObjectEq(a.f, b.f)
      [] a.t = "native" /\ b.t = "native" -> a.p = b.p
      [] OTHER                            -> FALSE

(***************************************************************************)
(* Scanner.  A scanner state is [start, current, line]; the source is      *)
(* passed beside it.                                                       *)
(***************************************************************************)
Digits == {"0", "1", "2", "3", "4", "5", "6", "7", "8", "9"}

Letters ==
    {"a", "b", "c", "d", "e", "f", "g", "h", "i", "j", "k", "l", "m", "n",
     "o", "p", "q", "r", "s", "t", "u", "v", "w", "x", "y", "z",
     "A", "B", "C", "D", "E", "F", "G", "H", "I", "J", "K", "L", "M", "N",
     "O", "P", "Q", "R", "S", "T", "U", "V", "W", "X", "Y", "Z"}

\* The byte 0 that peek returns past the end of the source.
NUL == "NUL"

NewScanner == [start |-> 0, current |-> 0, line |-> 1]

\* source[from..to), 0-based and end-exclusive like a Rust slice.
Slice(src, from, to) == SubSeq(src, from + 1, to)

sc_is_at_end(src, sc) == sc.current >= Len(src)

peek(src, sc) == IF sc.current < Len(src) THEN src[sc.current + 1] ELSE NUL

peek_next(src, sc) ==
    IF sc.current + 1 < Len(src) THEN src[sc.current + 2] ELSE NUL

make_token(sc, token_type) ==
    [token_type |-> token_type, start |-> sc.start, end |-> sc.current,
     line |-> sc.line]

scan_error(sc, message) ==
    [message |-> message, line |-> sc.line, start |-> sc.start,
     end |-> sc.current]

RECURSIVE skip_comment(_, _)
skip_comment(src, sc) ==
    IF ~sc_is_at_end(src, sc) /\ peek(src, sc) # "\n"
    THEN skip_comment(src, [sc EXCEPT !.current = @ + 1])
    ELSE sc

RECURSIVE skip_whitespace(_, _)
skip_whitespace(src, sc) ==
    IF sc_is_at_end(src, sc) THEN sc
    ELSE LET c == peek(src, sc) IN
         CASE c \in {"\t", "\r", " "} ->
                skip_whitespace(src, [sc EXCEPT !.current = @ + 1])
           [] c = "\n" ->
                skip_whitespace(src, [sc EXCEPT !.line = @ + 1, !.current = @ + 1])
           [] c = "/" ->
                IF peek_next(src, sc) = "/"
                THEN skip_whitespace(src, skip_comment(src, sc))
                ELSE sc
           [] OTHER -> sc

\* A scan_string that does not count the lines it crosses.
RECURSIVE scan_string_flat(_, _)
scan_string_flat(src, sc) ==
    IF ~sc_is_at_end(src, sc) /\ peek(src, sc) # "\""
    THEN scan_string_flat(src, [sc EXCEPT !.current = @ + 1])
    ELSE IF ~sc_is_at_end(src, sc)
         THEN [ok |-> TRUE, sc |-> [sc EXCEPT !.current = @ + 1]]
         ELSE [ok |-> FALSE, sc |-> sc]

\* The scanner after the body and the closing quote, and whether one was found.
RECURSIVE scan_string(_, _)
scan_string(src, sc) ==
    IF ~sc_is_at_end(src, sc) /\ peek(src, sc) # "\""
    THEN scan_string(src, [sc EXCEPT
                              !.line = IF peek(src, sc) = "\n" THEN @ + 1 ELSE @,
                              !.current = @ + 1])
    ELSE IF ~sc_is_at_end(src, sc)
         THEN [ok |-> TRUE, sc |-> [sc EXCEPT !.current = @ + 1]]
         ELSE [ok |-> FALSE, sc |-> sc]

RECURSIVE scan_digits(_, _)
scan_digits(src, sc) ==
    IF peek(src, sc) \in Digits
    THEN scan_digits(src, [sc EXCEPT !.current = @ + 1])
    ELSE sc

\* The fractional branch loops on peek() while it is a digit, with '.' still
\* the current character: the loop body never runs.
scan_number(src, sc) ==
    LET s1 == scan_digits(src, sc)
    IN  IF peek(src, s1) = "." /\ peek_next(src, s1) \in Digits
        THEN scan_digits(src, s1)
        ELSE s1

RECURSIVE scan_identifier_chars(_, _)
scan_identifier_chars(src, sc) ==
    IF peek(src, sc) \in Letters \cup Digits \cup {"_"}
    THEN scan_identifier_chars(src, [sc EXCEPT !.current = @ + 1])
    ELSE sc

\* A check_keyword that compares the text and not the length.
check_keyword_prefix(src, sc, start, rest, token_type) ==
    IF /\ sc.current - sc.start >= start + Len(rest)
       /\ Slice(src, sc.start + start, sc.start + start + Len(rest)) = rest
    THEN token_type
    ELSE "Identifier"

check_keyword(src, sc, start, rest, token_type) ==
    IF /\ sc.current - sc.start = start + Len(rest)
       /\ Slice(src, sc.start + start, sc.start + start + Len(rest)) = rest
    THEN token_type
    ELSE "Identifier"

\* The token type of the identifier-shaped lexeme source[start..current).
identifier_type(src, sc) ==
    LET c0 == src[sc.start + 1]
        c1 == src[sc.start + 2]
        long == sc.current - sc.start > 1
    IN  CASE c0 = "a" -> check_keyword(src, sc, 1, <<"n", "d">>, "And")
          [] c0 = "c" -> check_keyword(src, sc, 1, <<"l", "a", "s", "s">>, "Class")
          [] c0 = "e" -> check_keyword(src, sc, 1, <<"l", "s", "e">>, "Else")
          [] c0 = "f" ->
                IF ~long THEN "Identifier"
                ELSE CASE c1 = "a" -> check_keyword(src, sc, 2, <<"l", "s", "e">>, "False")
                       [] c1 = "o" -> check_keyword(src, sc, 2, <<"r">>, "For")
                       [] c1 = "u" -> check_keyword(src, sc, 2, <<"n">>, "Fun")
                       [] OTHER -> "Identifier"
          [] c0 = "i" -> check_keyword(src, sc, 1, <<"f">>, "If")
          [] c0 = "n" -> check_keyword(src, sc, 1, <<"i", "l">>, "Nil")
          [] c0 = "o" -> check_keyword(src, sc, 1, <<"r">>, "Or")
          [] c0 = "p" -> check_keyword(src, sc, 1, <<"r", "i", "n", "t">>, "Print")
          [] c0 = "r" -> check_keyword(src, sc, 1, <<"e", "t", "u", "r", "n">>, "Return")
          [] c0 = "s" -> check_keyword(src, sc, 1, <<"u", "p", "e", "r">>, "Super")
          [] c0 = "t" ->
                IF ~long THEN "Identifier"
                ELSE CASE c1 = "h" -> check_keyword(src, sc, 2, <<"i", "s">>, "This")
                       [] c1 = "r" -> check_keyword(src, sc, 2, <<"u", "e">>, "True")
                       [] OTHER -> "Identifier"
          [] c0 = "v" -> check_keyword(src, sc, 1, <<"a", "r">>, "Var")
          [] c0 = "w" -> check_keyword(src, sc, 1, <<"h", "i", "l", "e">>, "While")
          [] OTHER -> "Identifier"

scan_identifier(src, sc) ==
    LET s1 == scan_identifier_chars(src, sc)
    IN  [sc |-> s1, token_type |-> identifier_type(src, s1)]

\* current_matches: the scanner advanced past `expected` when it is next.
current_matches(src, sc, expected) ==
    IF sc_is_at_end(src, sc) \/ peek(src, sc) # expected
    THEN [hit |-> FALSE, sc |-> sc]
    ELSE [hit |-> TRUE, sc |-> [sc EXCEPT !.current = @ + 1]]

SingleCharTokens ==
    [c \in {"(", ")", "{", "}", ";", ",", ".", "-", "+", "/", "*"} |->
        CASE c = "(" -> "LeftParen"
          [] c = ")" -> "RightParen"
          [] c = "{" -> "LeftBrace"
          [] c = "}" -> "RightBrace"
          [] c = ";" -> "Semicolon"
          [] c = "," -> "Comma"
          [] c = "." -> "Dot"
          [] c = "-" -> "Minus"
          [] c = "+" -> "Plus"
          [] c = "/" -> "Slash"
          [] c = "*" -> "Star"]

TwoCharTokens ==
    [c \in {"!", "=", "<", ">"} |->
        CASE c = "!" -> <<"BangEqual", "Bang">>
          [] c = "=" -> <<"EqualEqual", "Equal">>
          [] c = "<" -> <<"LessEqual", "Less">>
          [] c = ">" -> <<"GreaterEqual", "Greater">>]

\* Result<Token, ScannerError> and the scanner afterwards:
\* [ok, token, err, sc], with token meaningful when ok and err when not.
NoToken == [token_type |-> "None", start |-> 0, end |-> 0, line |-> 0]

NoError == [message |-> "", line |-> 0, start |-> 0, end |-> 0]

TokenOk(sc, token_type) ==
    [ok |-> TRUE, token |-> make_token(sc, token_type), err |-> NoError, sc |-> sc]

TokenErr(sc, message) ==
    [ok |-> FALSE, token |-> NoToken, err |-> scan_error(sc, message), sc |-> sc]

\* A next_token that moves past the end when it returns Eof.
next_token_eof_advances(src, sc0) ==
    LET s0 == skip_whitespace(src, sc0)
        s1 == [s0 EXCEPT !.start = s0.current]
    IN  IF sc_is_at_end(src, s1) THEN TokenOk([s1 EXCEPT !.current = @ + 1], "Eof")
        ELSE LET c  == peek(src, s1)
                 s2 == [s1 EXCEPT !.current = @ + 1]
             IN  CASE c \in DOMAIN SingleCharTokens -> TokenOk(s2, SingleCharTokens[c])
                   [] c \in DOMAIN TwoCharTokens ->
                        LET m == current_matches(src, s2, "=")
                        IN  TokenOk(m.sc, TwoCharTokens[c][IF m.hit THEN 1 ELSE 2])
                   [] c = "\"" ->
                        LET r == scan_string(src, s2)
                        IN  IF r.ok THEN TokenOk(r.sc, "String")
                            ELSE TokenErr(r.sc, "Unterminated string literal")
                   [] c \in Digits -> TokenOk(scan_number(src, s2), "Number")
                   [] c \in Letters \cup {"_"} ->
                        LET r == scan_identifier(src, s2)
                        IN  TokenOk(r.sc, r.token_type)
                   [] OTHER -> TokenErr(s2, "Unexpected character")

next_token(src, sc0) ==
    LET s0 == skip_whitespace(src, sc0)
        s1 == [s0 EXCEPT !.start = s0.current]
    IN  IF sc_is_at_end(src, s1) THEN TokenOk(s1, "Eof")
        ELSE LET c  == peek(src, s1)
                 s2 == [s1 EXCEPT !.current = @ + 1]
             IN  CASE c \in DOMAIN SingleCharTokens -> TokenOk(s2, SingleCharTokens[c])
                   [] c \in DOMAIN TwoCharTokens ->
                        LET m == current_matches(src, s2, "=")
                        IN  TokenOk(m.sc, TwoCharTokens[c][IF m.hit THEN 1 ELSE 2])
                   [] c = "\"" ->
                        LET r == scan_string(src, s2)
                        IN  IF r.ok THEN TokenOk(r.sc, "String")
                            ELSE TokenErr(r.sc, "Unterminated string literal")
                   [] c \in Digits -> TokenOk(scan_number(src, s2), "Number")
                   [] c \in Letters \cup {"_"} ->
                        LET r == scan_identifier(src, s2)
                        IN  TokenOk(r.sc, r.token_type)
                   [] OTHER -> TokenErr(s2, "Unexpected character")

lexeme(src, token) == Slice(src, token.start, token.end)

\* The loops over the arguments of a call and the parameters of a function
\* are run for at most 2^MaxTurns turns, more than any source here asks for.
MaxTurns == 9

(***************************************************************************)
(* Opcodes, as the bytes written into a chunk.                             *)
(***************************************************************************)
OpReturn == 0
OpConstant == 1
OpLongConstant == 2
OpNegate == 3
OpAdd == 4
OpSubtract == 5
OpMultiply == 6
OpDivide == 7
\* The variants run matches on and the compiler emits beyond the eight that
\* instructions! lists, numbered on from them.
OpNil == 8
OpTrue == 9
OpFalse == 10
OpNot == 11
OpEqual == 12
OpGreater == 13
OpLess == 14
OpPrint == 15
OpPop == 16
OpDefineGlobal == 17
OpGetGlobal == 18
OpSetGlobal == 19
OpGetLocal == 20
OpSetLocal == 21
OpJumpIfFalse == 22
OpJump == 23
OpLoop == 24
OpCall == 25

U8_MAX == 255
U16_MAX == 65535

\* (x as u16).to_ne_bytes() and u16::from_ne_bytes, on a little-endian target.
u16_to_ne_bytes(x) == <<(x % 65536) % 256, (x % 65536) \div 256>>

u16_from_ne_bytes(a, b) == a + 256 * b

(***************************************************************************)
(* Compiler.  One record S holds the shared parser (src, sc, current,      *)
(* previous, had_error, panic_mode, diags) and the fields of the compiler  *)
(* in charge (fn, ftype, locals, scope_depth).  fn_stmts and stmts are     *)
(* bookkeeping for the verification only: the code spans of the expression *)
(* statements and of the if statements of the function being compiled, and *)
(* of the finished ones.                                                   *)
(***************************************************************************)
PrecNone == 0
PrecAssignment == 1
PrecOr == 2
PrecAnd == 3
PrecEquality == 4
PrecComparison == 5
PrecTerm == 6
PrecFactor == 7
PrecUnary == 8
PrecCall == 9
PrecPrimary == 10

ParseRule(prefix, infix, precedence) ==
    [prefix |-> prefix, infix |-> infix, precedence |-> precedence]

get_rule(token_type) ==
    CASE token_type = "LeftParen"    -> ParseRule("grouping", "call", PrecCall)
      [] token_type = "Minus"        -> ParseRule("unary", "binary", PrecTerm)
      [] token_type = "Plus"         -> ParseRule("none", "binary", PrecTerm)
      [] token_type = "Slash"        -> ParseRule("none", "binary", PrecFactor)
      [] token_type = "Star"         -> ParseRule("none", "binary", PrecFactor)
      [] token_type = "Number"       -> ParseRule("number", "none", PrecNone)
      [] token_type = "False"        -> ParseRule("literal", "none", PrecNone)
      [] token_type = "True"         -> ParseRule("literal", "none", PrecNone)
      [] token_type = "Nil"          -> ParseRule("literal", "none", PrecNone)
      [] token_type = "Bang"         -> ParseRule("unary", "none", PrecNone)
      [] token_type = "BangEqual"    -> ParseRule("none", "binary", PrecEquality)
      [] token_type = "EqualEqual"   -> ParseRule("none", "binary", PrecEquality)
      [] token_type = "Greater"      -> ParseRule("none", "binary", PrecComparison)
      [] token_type = "GreaterEqual" -> ParseRule("none", "binary", PrecComparison)
      [] token_type = "Less"         -> ParseRule("none", "binary", PrecComparison)
      [] token_type = "LessEqual"    -> ParseRule("none", "binary", PrecComparison)
      [] token_type = "String"       -> ParseRule("string", "none", PrecNone)
      [] token_type = "Identifier"   -> ParseRule("variable", "none", PrecNone)
      [] token_type = "And"          -> ParseRule("none", "and", PrecAnd)
      [] token_type = "Or"           -> ParseRule("none", "or", PrecOr)
      [] OTHER                       -> ParseRule("none", "none", PrecNone)

\* ---- Parser ----
\* Bookkeeping: what happened to the panic mode, in order, with the flag and
\* the two tokens as they were: an error "reported" or "dropped", the flag
\* "cleared" by synchronize, synchronize "stopped".
event(S, kind, message) ==
    [S EXCEPT !.events = Append(@, [e |-> kind, panic |-> S.panic_mode,
                                    previous |-> S.previous.token_type,
                                    current |-> S.current.token_type,
                                    message |-> message])]

\* An error_at that reports in panic mode too.
error_at_loud(S, range, line, message) ==
    [event(S, "reported", message) EXCEPT
        !.panic_mode = TRUE,
        !.had_error = TRUE,
        !.diags = Append(@, [line |-> line,
                             at |-> Slice(S.src, range[1], range[2]),
                             message |-> message])]

error_at(S, range, line, message) ==
    IF S.panic_mode THEN event(S, "dropped", message)
    ELSE [event(S, "reported", message) EXCEPT
            !.panic_mode = TRUE,
            !.had_error = TRUE,
            !.diags = Append(@, [line |-> line,
                                 at |-> Slice(S.src, range[1], range[2]),
                                 message |-> message])]

error_at_current(S, message) ==
    error_at(S, <<S.current.start, S.current.end>>, S.current.line, message)

error(S, message) ==
    error_at(S, <<S.previous.start, S.previous.end>>, S.previous.line, message)

\* What self.scanner.next_token() returned: the token or the error, and
\* the scanner afterwards.
scanner_result(S) == next_token(S.src, S.scanner)

\* Bookkeeping: a turn of one of the loops of the parser found the state S
\* and left the state T: the source bytes the scanner had left, and whether
\* the current token was Eof, before and after.
turn(S, T, loop) ==
    [T EXCEPT !.turns = @ \cup
        {[loop |-> loop,
          left_before |-> Len(S.src) - S.scanner.current,
          eof_before |-> S.current.token_type = "Eof",
          left_after |-> Len(T.src) - T.scanner.current,
          eof_after |-> T.current.token_type = "Eof"]}]

RECURSIVE advance_loop(_)
advance_scanned(S, r) ==
    IF r.ok THEN [S EXCEPT !.scanner = r.sc, !.current = r.token]
    ELSE advance_loop(turn(S, error_at([S EXCEPT !.scanner = r.sc],
                                       <<r.err.start, r.err.end>>, r.err.line,
                                       r.err.message),
                           "advance"))

advance_loop(S) == advance_scanned(S, scanner_result(S))

advance(S) == advance_loop([S EXCEPT !.previous = S.current, !.current = NoToken])

check_current_token(S, expected_type) == S.current.token_type = expected_type

consume(S, expected_type, message) ==
    IF check_current_token(S, expected_type) THEN advance(S)
    ELSE error_at_current(S, message)

\* match_token: whether the token matched, and the state afterwards.
match_token(S, expected_type) ==
    IF check_current_token(S, expected_type)
    THEN [hit |-> TRUE, S |-> advance(S)]
    ELSE [hit |-> FALSE, S |-> S]

is_at_end(S) ==
    sc_is_at_end(S.src, S.scanner)

identifiers_eq(S, a, b) == lexeme(S.src, a) = lexeme(S.src, b)

\* ---- Emission ----
emit_byte(S, byte) ==
    [S EXCEPT !.fn.chunk = write(@, byte, S.previous.line)]

emit_bytes(S, byte_1, byte_2) ==
    [S EXCEPT !.fn.chunk = write_slice(@, <<byte_1, byte_2>>, S.previous.line)]

\* An emit_return that leaves the Return out.
emit_return_open(S) == emit_byte(S, OpNil)

emit_return(S) == emit_byte(emit_byte(S, OpNil), OpReturn)

code_len(S) == Len(S.fn.chunk.code)

\* Bookkeeping: a jump instruction was emitted at offset `at`, and a jump
\* at `at` was patched to land on the end of the code as it is now.
jump_emitted(S, at) == [S EXCEPT !.fn_stmts = @ \cup {<<"emitted", at, 0, 0, 0>>}]

jump_span(S, at) == [S EXCEPT !.fn_stmts = @ \cup {<<"jump", at, 0, 0, code_len(S)>>}]

\* emit_jump: the operand's offset is code_len of the result minus 2.
emit_jump(S, op_code) ==
    jump_emitted(emit_byte(emit_byte(emit_byte(S, op_code), 255), 255), code_len(S))

jump_operand(S) == code_len(S) - 2

make_constant(S, value) ==
    LET r  == add_constant(S.fn.chunk, value)
        S1 == [S EXCEPT !.fn.chunk = r.chunk]
    IN  IF r.index > U8_MAX
        THEN [S |-> error(S1, "Too many constants in one chunk"), index |-> 0]
        ELSE [S |-> S1, index |-> r.index]

emit_constant(S, value) ==
    LET r == make_constant(S, value) IN emit_bytes(r.S, OpConstant, r.index)

\* A patch_jump that reports no error for a jump beyond u16::MAX.
patch_jump_unchecked(S, offset) ==
    LET jump == code_len(S) - offset - 2
        ab   == u16_to_ne_bytes(jump)
    IN  jump_span([S EXCEPT !.fn.chunk.code[offset + 1] = ab[1],
                            !.fn.chunk.code[offset + 2] = ab[2]],
                  offset - 1)

patch_jump(S, offset) ==
    LET jump == code_len(S) - offset - 2
        S1   == IF jump > U16_MAX THEN error(S, "Jump is too long") ELSE S
        ab   == u16_to_ne_bytes(jump)
    IN  jump_span([S1 EXCEPT !.fn.chunk.code[offset + 1] = ab[1],
                             !.fn.chunk.code[offset + 2] = ab[2]],
                  offset - 1)

\* Bookkeeping: the Loop emitted at offset `at` is to go back to loop_start.
loop_span(S, at, loop_start) ==
    [S EXCEPT !.fn_stmts = @ \cup {<<"loop", at, 0, 0, loop_start>>}]

\* An emit_loop that leaves the operand's own two bytes out of the offset.
emit_loop_short(S, loop_start) ==
    LET S1     == emit_byte(S, OpLoop)
        offset == code_len(S1) - loop_start
        S2     == IF offset > U16_MAX THEN error(S1, "Loop body is too big") ELSE S1
        ab     == u16_to_ne_bytes(offset)
    IN  loop_span(emit_bytes(S2, ab[1], ab[2]), code_len(S), loop_start)

emit_loop(S, loop_start) ==
    LET S1     == emit_byte(S, OpLoop)
        offset == code_len(S1) - loop_start + 2
        S2     == IF offset > U16_MAX THEN error(S1, "Loop body is too big") ELSE S1
        ab     == u16_to_ne_bytes(offset)
    IN  loop_span(emit_bytes(S2, ab[1], ab[2]), code_len(S), loop_start)

\* ---- Compiler construction and end ----
\* The field born is bookkeeping: the length of the code when the local was
\* defined, -1 before.
SlotZero == [name |-> NoToken, depth |-> 0, born |-> -1]

\* Compiler::new on the parser of S: a fresh function, locals and scope.
new_compiler(S, function_type) ==
    [S EXCEPT
        !.fn = [arity |-> 0, chunk |-> EmptyChunk,
                name |-> IF function_type = "Function"
                         THEN lexeme(S.src, S.previous)
                         ELSE <<"<", "m", "a", "i", "n", ">">>],
        !.ftype = function_type,
        !.locals = <<SlotZero>>,
        !.scope_depth = 0,
        !.fn_stmts = {}]

\* Compiler::end: the state after emit_return; the function is produced
\* (Some) exactly when had_error is unset.
end(S) ==
    LET S1 == emit_return(S)
    IN  [S1 EXCEPT !.stmts = @ \cup {[f |-> S1.fn, kind |-> sp[1], start |-> sp[2],
                                      jif |-> sp[3], jump |-> sp[4], end |-> sp[5]] :
                                        sp \in S1.fn_stmts}]

end_is_some(S) == ~S.had_error

\* ---- Scopes and variables ----
begin_scope(S) == [S EXCEPT !.scope_depth = @ + 1]

RECURSIVE end_scope_pop(_)
end_scope_pop(S) ==
    IF Len(S.locals) > 0 /\ S.locals[Len(S.locals)].depth > S.scope_depth
    THEN end_scope_pop(emit_byte([S EXCEPT !.locals = SubSeq(@, 1, Len(@) - 1)], OpPop))
    ELSE S

\* Bookkeeping: a call of end_scope that found the compiler as in S and left
\* it as in T: the scope depths, the locals (whether named, and the depth)
\* and the code emitted.
ended(S, T) ==
    [T EXCEPT !.scopes = @ \cup
        {[depth_before |-> S.scope_depth, depth |-> T.scope_depth,
          before |-> [i \in DOMAIN S.locals |->
                         [named |-> S.locals[i].name.token_type # "None",
                          depth |-> S.locals[i].depth]],
          after |-> [i \in DOMAIN T.locals |->
                        [named |-> T.locals[i].name.token_type # "None",
                         depth |-> T.locals[i].depth]],
          emitted |-> SubSeq(T.fn.chunk.code, code_len(S) + 1, code_len(T))]}]

\* An end_scope that leaves the scope depth as it is.
end_scope_deep(S) == ended(S, end_scope_pop(S))

end_scope(S) == ended(S, end_scope_pop([S EXCEPT !.scope_depth = @ - 1]))

\* Bookkeeping: the last local, whose depth has just been set, when another
\* named local has its name and its depth, with had_error as it is then.
\* The last entry is the only one a declaration changes, so the locals hold
\* two named entries of one name and depth exactly when one is recorded.
doubled(S) ==
    IF \E i \in 1..(Len(S.locals) - 1) :
          /\ S.locals[i].depth = S.locals[Len(S.locals)].depth
          /\ S.locals[i].name.token_type # "None"
          /\ S.locals[Len(S.locals)].name.token_type # "None"
          /\ identifiers_eq(S, S.locals[i].name, S.locals[Len(S.locals)].name)
    THEN [S EXCEPT !.doubles = @ \cup {[name |-> lexeme(S.src, S.locals[Len(S.locals)].name),
                                        depth |-> S.locals[Len(S.locals)].depth,
                                        had_error |-> S.had_error]}]
    ELSE S

mark_initialized(S) ==
    IF S.scope_depth # 0
    THEN doubled([S EXCEPT !.locals[Len(S.locals)].depth = S.scope_depth])
    ELSE S

\* Bookkeeping: the last local is defined here, its value being computed by
\* the code so far; its position in the locals.
local_born(S) ==
    [S EXCEPT !.locals[Len(S.locals)].born = code_len(S),
              !.fn_stmts = @ \cup {<<"local", code_len(S), Len(S.locals) - 1, 0, 0>>}]

define_variable(S, var_index) ==
    IF S.scope_depth = 0 THEN emit_bytes(S, OpDefineGlobal, var_index)
    ELSE local_born(mark_initialized(S))

add_local(S, name) ==
    [S EXCEPT !.locals = Append(@, [name |-> name, depth |-> -1, born |-> -1])]

\* The locals visited by the reverse loop of declare_variable, before its
\* break at the first local of an enclosing scope.
declare_visited(S) ==
    {i \in DOMAIN S.locals :
        \A j \in i..Len(S.locals) :
            S.locals[j].depth = -1 \/ S.locals[j].depth >= S.scope_depth}

\* The loop reports every visited local of the same name; a second report
\* finds the parser in panic mode and does nothing.
declare_scan(S, name) ==
    IF \E i \in declare_visited(S) :
          /\ S.locals[i].name.token_type # "None"
          /\ identifiers_eq(S, name, S.locals[i].name)
    THEN error(S, "Variable with this name already exists in the current scope")
    ELSE S

\* A declare_variable that does not look for the name among the locals.
declare_variable_unchecked(S) ==
    IF S.scope_depth # 0 THEN add_local(S, S.previous) ELSE S

declare_variable(S) ==
    IF S.scope_depth # 0
    THEN add_local(declare_scan(S, S.previous), S.previous)
    ELSE S

identifier_constant(S, name) == make_constant(S, String(lexeme(S.src, name)))

variable_constant(S) ==
    IF S.scope_depth > 0 THEN [S |-> S, index |-> 0]
    ELSE identifier_constant(S, S.previous)

\* parse_variable: the state afterwards and the u8 it returns.
parse_variable(S, message) ==
    variable_constant(declare_variable(consume(S, "Identifier", message)))

\* The locals named like `name`.
local_hits(S, name) ==
    {i \in DOMAIN S.locals :
        /\ S.locals[i].name.token_type # "None"
        /\ identifiers_eq(S, name, S.locals[i].name)}

\* The last local named like `name`, the first the reverse loop of
\* resolve_local meets: its index, or -1.
find_local(S, name) ==
    IF local_hits(S, name) = {} THEN -1
    ELSE (CHOOSE i \in local_hits(S, name) : \A j \in local_hits(S, name) : j <= i) - 1

\* A resolve_local that does not look at the depth of the local it found.
resolve_local_unchecked(S, name) ==
    LET i == find_local(S, name)
    IN  IF i = -1 THEN [found |-> FALSE, slot |-> 0, S |-> S, position |-> -1, born |-> -1]
        ELSE [found |-> TRUE, slot |-> i % 256, S |-> S,
              position |-> i, born |-> S.locals[i + 1].born]

\* resolve_local: [found, slot, S]; the slot is the index narrowed to a u8.
resolve_local(S, name) ==
    LET i == find_local(S, name)
    IN  IF i = -1 THEN [found |-> FALSE, slot |-> 0, S |-> S, position |-> -1, born |-> -1]
        ELSE [found |-> TRUE, slot |-> i % 256,
              position |-> i, born |-> S.locals[i + 1].born,
              S |-> IF S.locals[i + 1].depth = -1
                    THEN error(S, "Cannot read local variable in its own initializer")
                    ELSE S]

RECURSIVE parse_digits(_, _)
parse_digits(cs, acc) ==
    IF cs = <<>> THEN acc
    ELSE parse_digits(Tail(cs),
                      10 * acc + (CHOOSE k \in 0..9 :
                                    <<"0", "1", "2", "3", "4", "5", "6", "7", "8", "9">>[k + 1]
                                      = Head(cs)))

\* ---- Grammar: the Pratt parser and the statements ----
RECURSIVE parse_presedence(_, _)
RECURSIVE infix_loop(_, _, _)
RECURSIVE declaration(_)
RECURSIVE statement(_)
RECURSIVE block_loop(_)
RECURSIVE argument_loop(_, _)

expression(S) == parse_presedence(S, PrecAssignment)

\* A Number token is a run of ASCII digits, which parse::<f64> always accepts.
number(S, can_assign) ==
    emit_constant(S, Number(parse_digits(lexeme(S.src, S.previous), 0)))

unary(S, can_assign) ==
    LET operator_type == S.previous.token_type
        S1 == parse_presedence(S, PrecUnary)
    IN  CASE operator_type = "Minus" -> emit_byte(S1, OpNegate)
          [] operator_type = "Bang"  -> emit_byte(S1, OpNot)
          [] OTHER                   -> S1

\* A binary that takes one unary expression as its right operand, whatever
\* the operator.
binary_no_precedence(S, can_assign) ==
    LET operator_type == S.previous.token_type
        S1 == parse_presedence(S, PrecUnary)
    IN  CASE operator_type = "Plus"         -> emit_byte(S1, OpAdd)
          [] operator_type = "Minus"        -> emit_byte(S1, OpSubtract)
          [] operator_type = "Star"         -> emit_byte(S1, OpMultiply)
          [] operator_type = "Slash"        -> emit_byte(S1, OpDivide)
          [] operator_type = "BangEqual"    -> emit_bytes(S1, OpEqual, OpNot)
          [] operator_type = "EqualEqual"   -> emit_byte(S1, OpEqual)
          [] operator_type = "Greater"      -> emit_byte(S1, OpGreater)
          [] operator_type = "GreaterEqual" -> emit_bytes(S1, OpLess, OpNot)
          [] operator_type = "Less"         -> emit_byte(S1, OpLess)
          [] operator_type = "LessEqual"    -> emit_bytes(S1, OpGreater, OpNot)
          [] OTHER                          -> S1

\* A binary that parses its right operand at its own precedence, which
\* makes the operators of one level group to the right.
binary_right(S, can_assign) ==
    LET operator_type == S.previous.token_type
        rule == get_rule(operator_type)
        S1 == parse_presedence(S, rule.precedence)
    IN  CASE operator_type = "Plus"         -> emit_byte(S1, OpAdd)
          [] operator_type = "Minus"        -> emit_byte(S1, OpSubtract)
          [] operator_type = "Star"         -> emit_byte(S1, OpMultiply)
          [] operator_type = "Slash"        -> emit_byte(S1, OpDivide)
          [] operator_type = "BangEqual"    -> emit_bytes(S1, OpEqual, OpNot)
          [] operator_type = "EqualEqual"   -> emit_byte(S1, OpEqual)
          [] operator_type = "Greater"      -> emit_byte(S1, OpGreater)
          [] operator_type = "GreaterEqual" -> emit_bytes(S1, OpLess, OpNot)
          [] operator_type = "Less"         -> emit_byte(S1, OpLess)
          [] operator_type = "LessEqual"    -> emit_bytes(S1, OpGreater, OpNot)
          [] OTHER                          -> S1

binary(S, can_assign) ==
    LET operator_type == S.previous.token_type
        rule == get_rule(operator_type)
        S1 == parse_presedence(S, rule.precedence + 1)
    IN  CASE operator_type = "Plus"         -> emit_byte(S1, OpAdd)
          [] operator_type = "Minus"        -> emit_byte(S1, OpSubtract)
          [] operator_type = "Star"         -> emit_byte(S1, OpMultiply)
          [] operator_type = "Slash"        -> emit_byte(S1, OpDivide)
          [] operator_type = "BangEqual"    -> emit_bytes(S1, OpEqual, OpNot)
          [] operator_type = "EqualEqual"   -> emit_byte(S1, OpEqual)
          [] operator_type = "Greater"      -> emit_byte(S1, OpGreater)
          [] operator_type = "GreaterEqual" -> emit_bytes(S1, OpLess, OpNot)
          [] operator_type = "Less"         -> emit_byte(S1, OpLess)
          [] operator_type = "LessEqual"    -> emit_bytes(S1, OpGreater, OpNot)
          [] OTHER                          -> S1

grouping(S, can_assign) ==
    consume(expression(S), "RightParen", "Expected a ')' after expression")

literal(S, can_assign) ==
    LET tt == S.previous.token_type
    IN  CASE tt = "False" -> emit_byte(S, OpFalse)
          [] tt = "True"  -> emit_byte(S, OpTrue)
          [] tt = "Nil"   -> emit_byte(S, OpNil)
          [] OTHER        -> S

string(S, can_assign) ==
    emit_constant(S, String(Slice(S.src, S.previous.start + 1, S.previous.end - 1)))

\* named_variable once the name is resolved to its instructions and operand;
\* m is what match_token(Equal) answers on S.
variable_assign(S, m, get_op, set_op, arg, can_assign) ==
    IF can_assign /\ m.hit THEN emit_bytes(expression(m.S), set_op, arg)
    ELSE emit_bytes(S, get_op, arg)

variable_access(S, get_op, set_op, arg, can_assign) ==
    variable_assign(S, match_token(S, "Equal"), get_op, set_op, arg, can_assign)

global_access(c, can_assign) ==
    variable_access(c.S, OpGetGlobal, OpSetGlobal, c.index, can_assign)

\* Bookkeeping: the GetLocal or SetLocal emitted last is for the local at
\* `position` of the locals, defined at `born`.
local_used(S, position, born) ==
    [S EXCEPT !.fn_stmts = @ \cup {<<"use", code_len(S) - 2, position, born, 0>>}]

resolved_variable(r, name, can_assign) ==
    IF r.found
    THEN local_used(variable_access(r.S, OpGetLocal, OpSetLocal, r.slot, can_assign),
                    r.position, r.born)
    ELSE global_access(identifier_constant(r.S, name), can_assign)

named_variable(S, name, can_assign) ==
    resolved_variable(resolve_local(S, name), name, can_assign)

variable(S, can_assign) == named_variable(S, S.previous, can_assign)

\* Bookkeeping: an `and` or `or` whose JumpIfFalse is at start and whose Pop
\* of the left operand is at pop_at, the right operand's code following it
\* up to the end of the code so far.
logic_span(S, kind, start, pop_at) ==
    [S EXCEPT !.fn_stmts = @ \cup {<<kind, start, pop_at, pop_at + 1, code_len(S)>>}]

\* An `and` that does not pop the left operand before the right one.
and_unpopped(S, can_assign) ==
    LET S1 == emit_jump(S, OpJumpIfFalse)
        end_jump == jump_operand(S1)
        S2 == parse_presedence(S1, PrecAnd)
    IN  logic_span(patch_jump(S2, end_jump), "and", code_len(S), code_len(S) + 3)

and(S, can_assign) ==
    LET S1 == emit_jump(S, OpJumpIfFalse)
        end_jump == jump_operand(S1)
        S2 == parse_presedence(emit_byte(S1, OpPop), PrecAnd)
    IN  logic_span(patch_jump(S2, end_jump), "and", code_len(S), code_len(S) + 3)

or(S, can_assign) ==
    LET S1 == emit_jump(S, OpJumpIfFalse)
        else_jump == jump_operand(S1)
        S2 == emit_jump(S1, OpJump)
        end_jump == jump_operand(S2)
        S3 == emit_byte(patch_jump(S2, else_jump), OpPop)
        S4 == parse_presedence(S3, PrecOr)
    IN  logic_span(patch_jump(S4, end_jump), "or", code_len(S), code_len(S) + 6)

\* arg_count is a u8: `arg_count += 1` at 255 overflows, which S.overflow
\* records; the count kept is the wrapped one.
argument_turned(m, arg_count) == [S |-> m.S, count |-> arg_count, done |-> ~m.hit]

argument_count(S, arg_count) ==
    IF arg_count = U8_MAX
    THEN [error(S, "Can't have more than 255 arguments") EXCEPT !.overflow = TRUE]
    ELSE S

\* One turn of the loop, and none once the loop has ended.
argument_turn(r) ==
    IF r.done THEN r
    ELSE argument_turned(match_token(argument_count(expression(r.S), r.count), "Comma"),
                         (r.count + 1) % 256)

\* 2^k turns of the loop, as 2^(k-1) turns and then 2^(k-1) more: h is the
\* state the first half ends in.
argument_loop(r, k) ==
    IF k = 0 THEN argument_turn(r)
    ELSE CHOOSE t \in {argument_loop(h, k - 1) : h \in {argument_loop(r, k - 1)}} : TRUE

argument_close(r) ==
    [S |-> consume(r.S, "RightParen", "Expected a ')' after function arguments"),
     count |-> r.count]

\* argument_list: the state afterwards and the count it returns.
argument_list(S) ==
    argument_close(IF ~check_current_token(S, "RightParen")
                   THEN argument_loop([S |-> S, count |-> 0, done |-> FALSE], MaxTurns)
                   ELSE [S |-> S, count |-> 0])

call_emit(r) == emit_bytes(r.S, OpCall, r.count)

call(S, can_assign) == call_emit(argument_list(S))

prefix_rule(rule, S, can_assign) ==
    CASE rule = "grouping" -> grouping(S, can_assign)
      [] rule = "unary"    -> unary(S, can_assign)
      [] rule = "number"   -> number(S, can_assign)
      [] rule = "literal"  -> literal(S, can_assign)
      [] rule = "string"   -> string(S, can_assign)
      [] rule = "variable" -> variable(S, can_assign)

infix_rule(rule, S, can_assign) ==
    CASE rule = "call"   -> call(S, can_assign)
      [] rule = "binary" -> binary(S, can_assign)
      [] rule = "and"    -> and(S, can_assign)
      [] rule = "or"     -> or(S, can_assign)

infix_step(S, can_assign) ==
    infix_rule(get_rule(S.previous.token_type).infix, S, can_assign)

infix_loop(S, precedence, can_assign) ==
    IF precedence <= get_rule(S.current.token_type).precedence
    THEN infix_loop(infix_step(advance(S), can_assign), precedence, can_assign)
    ELSE S

\* parse_presedence from its end to its start: the assignment check and the
\* infix loop, the prefix rule, the advance.
assignment_target(S, m, can_assign) ==
    IF can_assign /\ m.hit THEN error(m.S, "Invalid assignment target") ELSE S

parse_infix(S, precedence, can_assign) ==
    infix_loop(assignment_target(S, match_token(S, "Equal"), can_assign),
               precedence, can_assign)

parse_prefix(S, rule, precedence, can_assign) ==
    parse_infix(IF rule.prefix = "none" THEN error(S, "Expected an expression")
                ELSE prefix_rule(rule.prefix, S, can_assign),
                precedence, can_assign)

parse_advanced(S, precedence) ==
    parse_prefix(S, get_rule(S.previous.token_type), precedence,
                 precedence <= PrecAssignment)

parse_presedence(S, precedence) == parse_advanced(advance(S), precedence)

\* The span of code an expression statement compiled to, kept beside the
\* function for the statement-level properties.
statement_span(S, start) ==
    [S EXCEPT !.fn_stmts = @ \cup {<<"expression", start, 0, 0, code_len(S)>>}]

\* The span of code an if statement compiled to, with the offsets of its
\* JumpIfFalse and of the Jump after the then branch.
branch_span(S, start, then_jump, else_jump) ==
    [S EXCEPT !.fn_stmts = @ \cup {<<"if", start, then_jump - 1, else_jump - 1,
                                     code_len(S)>>}]

expression_statement(S) ==
    statement_span(
        emit_byte(consume(expression(S), "Semicolon", "Expected a ';' after expression"),
                  OpPop),
        code_len(S))

print_statement(S) ==
    emit_byte(consume(expression(S), "Semicolon", "Expected a ';' after value"), OpPrint)

\* A block whose loop ends at the `}` only, or once Eof has been passed.
RECURSIVE block_loop_past_end(_)
block_loop_past_end(S) ==
    IF S.previous.token_type # "Eof" /\ ~check_current_token(S, "RightBrace")
    THEN block_loop_past_end(turn(S, declaration(S), "block"))
    ELSE S

block_past_end(S) ==
    consume(block_loop_past_end(S), "RightBrace", "Exepected a '}' after block")

block_loop(S) ==
    IF ~is_at_end(S) /\ ~check_current_token(S, "RightBrace")
    THEN block_loop(turn(S, declaration(S), "block"))
    ELSE S

block(S) == consume(block_loop(S), "RightBrace", "Exepected a '}' after block")

var_initializer(m) == IF m.hit THEN expression(m.S) ELSE emit_byte(m.S, OpNil)

var_define(r) ==
    define_variable(
        consume(var_initializer(match_token(r.S, "Equal")), "Semicolon",
                "Expected a ';' after variable declaration"),
        r.index)

var_declaration(S) == var_define(parse_variable(S, "Expected a variable name"))

\* arity is a u8: `arity += 1` at 255 overflows, which S.overflow records.
RECURSIVE parameter_loop(_, _)
parameter_count(C) ==
    [(IF C.fn.arity = U8_MAX
      THEN [error_at_current(C, "Can't have more than 255 function parameters")
               EXCEPT !.overflow = TRUE]
      ELSE C)
     EXCEPT !.fn.arity = (@ + 1) % 256]

parameter_define(r) == define_variable(r.S, r.index)

parameter_turned(m) == [S |-> m.S, done |-> ~m.hit]

\* One turn of the loop, and none once the loop has ended.
parameter_turn(r) ==
    IF r.done THEN r
    ELSE parameter_turned(
            match_token(parameter_define(parse_variable(parameter_count(r.S),
                                                        "Expected a parameter name")),
                        "Comma"))

\* 2^k turns of the loop, as 2^(k-1) turns and then 2^(k-1) more: h is the
\* state the first half ends in.
parameter_loop(r, k) ==
    IF k = 0 THEN parameter_turn(r)
    ELSE CHOOSE t \in {parameter_loop(h, k - 1) : h \in {parameter_loop(r, k - 1)}} : TRUE

\* function from its end to its start.  C is the inner compiler; enclosing is
\* the outer compiler S again, on the parser the inner one left.
enclosing(S, C) ==
    [C EXCEPT !.fn = S.fn, !.ftype = S.ftype, !.locals = S.locals,
              !.scope_depth = S.scope_depth, !.fn_stmts = S.fn_stmts]

function_constant(r) == emit_bytes(r.S, OpConstant, r.index)

function_end(S, C) ==
    IF end_is_some(C)
    THEN function_constant(make_constant(enclosing(S, C), Function(C.fn)))
    ELSE enclosing(S, C)

function_body(C) ==
    end(block(consume(consume(C, "RightParen", "Expected a ')' after parameters"),
                      "LeftBrace", "Expected a '{' before function body")))

function_parameters(C) ==
    IF ~check_current_token(C, "RightParen")
    THEN parameter_loop([S |-> C, done |-> FALSE], MaxTurns).S
    ELSE C

function(S, function_type) ==
    function_end(S,
        function_body(function_parameters(
            consume(begin_scope(new_compiler(S, function_type)), "LeftParen",
                    "Expected a '(' after function name"))))

fun_define(r) == define_variable(function(mark_initialized(r.S), "Function"), r.index)

fun_declaration(S) == fun_define(parse_variable(S, "Expected a function name"))

\* if_statement from its end to its start; each part takes the state the part
\* before it left and the jump operands still to patch.
if_end(m, start, then_jump, else_jump) ==
    branch_span(patch_jump(IF m.hit THEN statement(m.S) ELSE m.S, else_jump),
                start, then_jump, else_jump)

if_else(S, start, then_jump) ==
    if_end(match_token(emit_byte(patch_jump(S, then_jump), OpPop), "Else"),
           start, then_jump, jump_operand(S))

\* An if_statement that emits no Pop before the then branch.
if_then_unpopped(S, start) ==
    if_else(emit_jump(statement(S), OpJump), start, jump_operand(S))

if_then(S, start) ==
    if_else(emit_jump(statement(emit_byte(S, OpPop)), OpJump), start, jump_operand(S))

if_statement(S) ==
    if_then(emit_jump(
                consume(expression(consume(S, "LeftParen", "Expected '(' after 'if'")),
                        "RightParen", "Expected ')' after 'condition'"),
                OpJumpIfFalse),
            code_len(S))

while_body(S, loop_start) ==
    emit_byte(patch_jump(emit_loop(statement(emit_byte(S, OpPop)), loop_start),
                         jump_operand(S)),
              OpPop)

while_statement(S) ==
    while_body(
        emit_jump(consume(expression(consume(S, "LeftParen",
                                             "Expected a '(' after 'while'")),
                          "RightParen", "Expected a ')' after condition"),
                  OpJumpIfFalse),
        code_len(S))

\* for_statement from its end to its start.  has_exit and exit_jump are the
\* Option exit_jump; loop_start is the variable of that name.
for_exit_patch(S, has_exit, exit_jump) ==
    IF has_exit THEN emit_byte(patch_jump(S, exit_jump), OpPop) ELSE S

for_body(S, loop_start, has_exit, exit_jump) ==
    end_scope(for_exit_patch(emit_loop(statement(S), loop_start), has_exit, exit_jump))

for_increment_clause(S, loop_start, has_exit, exit_jump) ==
    for_body(
        patch_jump(
            emit_loop(consume(emit_byte(expression(S), OpPop), "RightParen",
                              "Expected ')' after for clause"),
                      loop_start),
            jump_operand(S)),
        code_len(S), has_exit, exit_jump)

for_increment(m, loop_start, has_exit, exit_jump) ==
    IF m.hit THEN for_body(m.S, loop_start, has_exit, exit_jump)
    ELSE for_increment_clause(emit_jump(m.S, OpJump), loop_start, has_exit, exit_jump)

for_exit(S, loop_start) ==
    for_increment(match_token(emit_byte(S, OpPop), "RightParen"), loop_start, TRUE,
                  jump_operand(S))

for_condition_clause(m, loop_start) ==
    IF m.hit
    THEN for_increment(match_token(m.S, "RightParen"), loop_start, FALSE, 0)
    ELSE for_exit(emit_jump(consume(expression(m.S), "Semicolon",
                                    "Expected a ';' after for condition"),
                            OpJumpIfFalse),
                  loop_start)

for_condition(S) == for_condition_clause(match_token(S, "Semicolon"), code_len(S))

for_initializer_var(m) ==
    IF m.hit THEN var_declaration(m.S) ELSE expression_statement(m.S)

for_initializer(m) ==
    IF m.hit THEN m.S ELSE for_initializer_var(match_token(m.S, "Var"))

for_statement(S) ==
    for_condition(for_initializer(
        match_token(consume(begin_scope(S), "LeftParen", "Expected '(' after 'for'"),
                    "Semicolon")))

\* A return_statement that does not look at the function type.
return_statement_unchecked(S) ==
    LET m == match_token(S, "Semicolon")
    IN  IF m.hit THEN emit_return(m.S)
        ELSE emit_byte(consume(expression(S), "Semicolon",
                               "Expected a ';' after return value"),
                       OpReturn)

return_statement(S) ==
    LET S1 == IF S.ftype = "Script" THEN error(S, "Cannot return from top-level code")
              ELSE S
        m  == match_token(S1, "Semicolon")
    IN  IF m.hit THEN emit_return(m.S)
        ELSE emit_byte(consume(expression(S1), "Semicolon",
                               "Expected a ';' after return value"),
                       OpReturn)

RECURSIVE synchronize_loop(_)
synchronize_loop(S) ==
    IF S.current.token_type = "Eof" THEN event(S, "stopped", "")
    ELSE IF S.previous.token_type = "Semicolon" THEN event(S, "stopped", "")
    ELSE IF S.current.token_type \in
              {"Class", "Fun", "Var", "For", "If", "While", "Print", "Return"}
         THEN event(S, "stopped", "")
    ELSE synchronize_loop(turn(S, advance(S), "synchronize"))

\* A synchronize that forgets the error along with the panic.
synchronize_forgiving(S) ==
    synchronize_loop([event(S, "cleared", "") EXCEPT !.panic_mode = FALSE,
                                                    !.had_error = FALSE])

synchronize(S) ==
    synchronize_loop([event(S, "cleared", "") EXCEPT !.panic_mode = FALSE])

statement(S) ==
    LET tt == S.current.token_type
    IN  CASE tt = "Print"     -> print_statement(advance(S))
          [] tt = "If"        -> if_statement(advance(S))
          [] tt = "Return"    -> return_statement(advance(S))
          [] tt = "While"     -> while_statement(advance(S))
          [] tt = "For"       -> for_statement(advance(S))
          [] tt = "LeftBrace" -> end_scope(block(begin_scope(advance(S))))
          [] OTHER            -> expression_statement(S)

declaration_end(S) == IF S.panic_mode THEN synchronize(S) ELSE S

declaration(S) ==
    declaration_end(CASE S.current.token_type = "Fun" -> fun_declaration(advance(S))
                      [] S.current.token_type = "Var" -> var_declaration(advance(S))
                      [] OTHER                        -> statement(S))

RECURSIVE declaration_loop(_)
declaration_loop(S) ==
    LET m == match_token(S, "Eof")
    IN  IF m.hit THEN m.S ELSE declaration_loop(turn(S, declaration(S), "declaration"))

NewParser(source) ==
    [src |-> source, scanner |-> NewScanner,
     current |-> NoToken, previous |-> NoToken,
     had_error |-> FALSE, panic_mode |-> FALSE, diags |-> <<>>, overflow |-> FALSE,
     events |-> <<>>, doubles |-> {}, scopes |-> {}, turns |-> {},
     fn |-> [arity |-> 0, chunk |-> EmptyChunk, name |-> <<>>], ftype |-> "Script",
     locals |-> <<>>, scope_depth |-> 0, fn_stmts |-> {}, stmts |-> {}]

\* The compiler state when compile returns; compile's result is Some(fn)
\* exactly when end_is_some holds of it.
compile_state(source) ==
    LET S0 == advance(new_compiler(NewParser(source), "Script"))
        S1 == declaration_loop(S0)
    IN  end(consume(S1, "Eof", "Expected end of expression"))

(***************************************************************************)
(* compile on `if (false) { print nil;print nil; ... }`, a source whose    *)
(* then branch is long enough for the jump over it to reach u16::MAX.  The *)
(* steps are those compile takes on this source, in its order; the turns   *)
(* of block's loop, one per print statement, are taken all at once.        *)
(***************************************************************************)
\* The distances of the long ifs: u16::MAX and one more, and two short ones
\* that compile reaches by itself as well.
ShortDistances == {8, 9}

LongDistances == {U16_MAX, U16_MAX + 1}

LongIfHead == <<"i", "f", " ", "(", "f", "a", "l", "s", "e", ")", " ", "{">>

PrintNil == <<"p", "r", "i", "n", "t", " ", "n", "i", "l", ";">>

PrintNotNil == <<"p", "r", "i", "n", "t", " ", "!", "n", "i", "l", ";">>

\* The then branch whose JumpIfFalse has `distance` bytes to jump: the Pop,
\* the statements and the Jump.  `print !nil;` comes first when the number
\* of bytes asks for it, and `print nil;` as often as needed.
LongIfOdd(distance) == distance % 2

LongIfTurns(distance) == (distance - 4 - 3 * LongIfOdd(distance)) \div 2

LongIfLen(distance) ==
    Len(LongIfHead) + Len(PrintNotNil) * LongIfOdd(distance)
        + Len(PrintNil) * LongIfTurns(distance) + 1

LongIfSource(distance) ==
    <<>> \o
    [i \in 1..LongIfLen(distance) |->
        IF i <= Len(LongIfHead) THEN LongIfHead[i]
        ELSE IF i <= Len(LongIfHead) + Len(PrintNotNil) * LongIfOdd(distance)
             THEN PrintNotNil[i - Len(LongIfHead)]
        ELSE IF i < LongIfLen(distance)
             THEN PrintNil[((i - Len(LongIfHead) - 1
                               - Len(PrintNotNil) * LongIfOdd(distance)) % Len(PrintNil)) + 1]
        ELSE "}"]

\* The code of the statements of the then branch.
LongIfBody(distance) ==
    [i \in 1..(distance - 4) |->
        IF LongIfOdd(distance) = 1 /\ i <= 3
        THEN <<OpNil, OpNot, OpPrint>>[i]
        ELSE IF (i - 3 * LongIfOdd(distance)) % 2 = 1 THEN OpNil ELSE OpPrint]

\* compile up to the JumpIfFalse: advance, statement, if_statement, the
\* literal `false` as the condition.
long_if_condition(source) ==
    emit_jump(
        consume(emit_byte(advance(consume(advance(advance(
                              new_compiler(NewParser(source), "Script"))),
                          "LeftParen", "Expected '(' after 'if'")),
                          OpFalse),
                "RightParen", "Expected ')' after 'condition'"),
        OpJumpIfFalse)

\* The Pop and the start of the then branch: statement on `{`.
long_if_block(S) == begin_scope(advance(emit_byte(S, OpPop)))

\* block's loop through all the print statements: their code is written, on
\* the line all the code before is on, and the parser stands on the `}`.
long_if_body(S, distance) ==
    [S EXCEPT
        !.fn.chunk.code = @ \o LongIfBody(distance),
        !.previous = [token_type |-> "Semicolon", start |-> Len(S.src) - 2,
                      end |-> Len(S.src) - 1, line |-> 1],
        !.current = [token_type |-> "RightBrace", start |-> Len(S.src) - 1,
                     end |-> Len(S.src), line |-> 1],
        !.scanner = [start |-> Len(S.src) - 1, current |-> Len(S.src), line |-> 1]]

\* The end of the block and the Jump after the then branch.
long_if_close(S) ==
    emit_jump(end_scope(consume(S, "RightBrace", "Exepected a '}' after block")),
              OpJump)

\* The rest of if_statement: both patches, with no else in between.
long_if_patch(S, then_jump) ==
    branch_span(
        patch_jump(match_token(emit_byte(patch_jump(S, then_jump), OpPop), "Else").S,
                   jump_operand(S)),
        0, then_jump, jump_operand(S))

long_if_then(S, distance) ==
    long_if_patch(long_if_close(long_if_body(long_if_block(S), distance)),
                  jump_operand(S))

\* declaration's synchronize, the Eof, and Compiler::end.
long_if_end(S) ==
    end(consume(match_token(declaration_end(S), "Eof").S,
                "Eof", "Expected end of expression"))

long_if_state(distance) ==
    long_if_end(long_if_then(long_if_condition(LongIfSource(distance)), distance))

\* emit_jump and patch_jump called one after the other, which no source
\* makes compile do: here between the code of `nil` and the Pop of the
\* statement `nil;`.
jump_at_once(S) == patch_jump(emit_jump(S, OpJump), code_len(S) + 1)

jump_at_once_state ==
    end(emit_byte(
            jump_at_once(emit_byte(
                advance(advance(new_compiler(NewParser(<<"n", "i", "l", ";">>), "Script"))),
                OpNil)),
            OpPop))

(***************************************************************************)
(* VM.                                                                     *)
(*   stack, globals, frames, frame_count : the fields of Vm                *)
(*   status : where the caller of the VM is: "idle" (after Vm::new),       *)
(*            "running" (inside run), "ok" / "error" (interpret returned   *)
(*            Ok / Err(RuntimeError)), "panic" (the thread panicked)       *)
(*   result : the Option<Value> carried by Ok                              *)
(*   out, diag : the lines printed to stdout and the diagnostics printed   *)
(*            to stderr by the current interpretation                      *)
(*   compiled : what the last call of compile made by the host gave        *)
(*   queue : the functions still to be handed to interpret, in order       *)
(*   calls : the number of interpret calls made                            *)
(*   stmts, marks : bookkeeping for the verification only: the spans of    *)
(*            the expression statements and if statements of the program   *)
(*            being run, and for each statement under way the stack length *)
(*            at its first instruction and, for an if, the path taken      *)
(***************************************************************************)
\* The Vm's fields; how the current call of interpret stands (status, result,
\* what it printed and reported); the calls the host still has to make; and,
\* for the properties, the number of interpret calls so far, the statement
\* spans of the running program with the statements under way, and the
\* instruction executed last with the state it started from.
VARIABLES stack, globals, frames, frame_count, status, result, out, diag,
          compiled, queue, calls, stmts, marks, slots, last

\* A scanner at work on a source of its own, and a chunk being written:
\* the Scanner and the Chunk taken by themselves, away from a Vm.
VARIABLES scan, written

vm_vars == <<stack, globals, frames, frame_count, status, result, out, diag,
             compiled, queue, calls, stmts, marks, slots, last>>

units == <<scan, written>>

vars == <<vm_vars, units>>

\* What scan and written hold where no scanner and no chunk is at work.
NotScanning == [source |-> <<>>, called |-> 0]

NotWriting == [lines |-> <<>>]

FRAMES_MAX == 64

DefaultFunctionObject ==
    [arity |-> 0, chunk |-> EmptyChunk,
     name |-> <<"<", "p", "l", "a", "c", "e", "h", "o", "l", "d", "e", "r", ">">>]

DefaultCallFrame == [function |-> DefaultFunctionObject, ip |-> 0, stack_offset |-> 0]

NoResult == [some |-> FALSE, value |-> Nil]

\* What `last` holds before any instruction has run.
Nothing ==
    [kind |-> "nothing", op |-> 0, ip |-> 0, frame_count |-> 0, stack |-> <<>>,
     globals |-> <<>>, out |-> <<>>]

Some(v) == [some |-> TRUE, value |-> v]

\* What `compiled` holds when the function at hand was not compiled from text.
NotCompiled ==
    [called |-> FALSE, source |-> <<>>, some |-> FALSE, had_error |-> FALSE,
     diags |-> <<>>, overflow |-> FALSE, events |-> <<>>, doubles |-> {},
     scopes |-> {}, turns |-> {}]

\* Vm::new()
VmNew ==
    /\ stack = <<>>
    /\ globals = <<>>
    /\ frames = [i \in 0..(FRAMES_MAX - 1) |-> DefaultCallFrame]
    /\ frame_count = 0
    /\ status = "idle"
    /\ result = NoResult
    /\ out = <<>>
    /\ diag = <<>>
    /\ compiled = NotCompiled
    /\ calls = 0
    /\ stmts = {}
    /\ marks = <<>>
    /\ slots = {}
    /\ last = Nothing

\* ---- the frame and the stack the run loop works on ----
Frame == frames[frame_count - 1]

Chunk == Frame.function.chunk

Ip == Frame.ip

Byte(offset) == Chunk.code[offset + 1]

peek_value(distance) == stack[Len(stack) - distance]

Popped(n) == SubSeq(stack, 1, Len(stack) - n)

\* frames after the current frame's ip moved to `ip`
FramesAt(ip) == [frames EXCEPT ![frame_count - 1].ip = ip]

InCode(offset) == offset < Len(Chunk.code)

\* read_constant at operand offset `at`: the operand byte indexes constants
ConstantAt(at) == Chunk.constants[Byte(at) + 1]

HasConstantAt(at) == InCode(at) /\ Byte(at) < Len(Chunk.constants)

\* read_string: the operand names a string constant
HasStringAt(at) == HasConstantAt(at) /\ IsString(ConstantAt(at))

\* read_long_constant: three operand bytes, little-endian
LongIndex(at) == Byte(at) + 256 * Byte(at + 1) + 65536 * Byte(at + 2)

\* read_u16
U16At(at) == u16_from_ne_bytes(Byte(at), Byte(at + 1))

\* Whether the instruction at Ip runs without a panic: the indexings and
\* unwraps on its path all succeed.
Ready ==
    /\ InCode(Ip)
    /\ LET op == Byte(Ip) n == Len(stack) IN
       CASE op \in {OpReturn, OpNil, OpTrue, OpFalse, OpPop} -> TRUE
         [] op = OpConstant -> HasConstantAt(Ip + 1)
         [] op = OpLongConstant ->
                InCode(Ip + 3) /\ LongIndex(Ip + 1) < Len(Chunk.constants)
         [] op \in {OpNegate, OpNot, OpPrint} -> n >= 1
         [] op \in {OpAdd, OpSubtract, OpMultiply, OpDivide, OpGreater, OpLess,
                    OpEqual} -> n >= 2
         [] op = OpDefineGlobal -> HasStringAt(Ip + 1) /\ n >= 1
         [] op = OpGetGlobal -> HasStringAt(Ip + 1)
         [] op = OpSetGlobal ->
                /\ HasStringAt(Ip + 1)
                /\ ConstantAt(Ip + 1).s \in DOMAIN globals => n >= 1
         [] op = OpGetLocal ->
                InCode(Ip + 1) /\ Byte(Ip + 1) + Frame.stack_offset < n
         [] op = OpSetLocal ->
                InCode(Ip + 1) /\ n >= 1 /\ Byte(Ip + 1) + Frame.stack_offset < n
         [] op = OpJumpIfFalse -> InCode(Ip + 2) /\ n >= 1
         [] op = OpJump -> InCode(Ip + 2)
         [] op = OpLoop -> InCode(Ip + 2) /\ U16At(Ip + 1) <= Ip + 3
         [] op = OpCall -> InCode(Ip + 1) /\ n >= 1 + Byte(Ip + 1)
         [] OTHER -> FALSE

Fetch(op) == status = "running" /\ Ready /\ Byte(Ip) = op

\* ---- bookkeeping of statement spans, taken by every instruction ----
\* The marks without those on top whose statement the frame has left.
RECURSIVE Undone(_)
Undone(ms) ==
    IF ms # <<>> /\ ms[Len(ms)].fc = frame_count /\ ms[Len(ms)].end = Ip
    THEN Undone(SubSeq(ms, 1, Len(ms) - 1))
    ELSE ms

\* The mark of an if statement of this frame after the instruction at Ip:
\* the truthiness its JumpIfFalse found, the times each Pop of the condition
\* ran and whether it found the condition on top, and whether an instruction
\* of either branch ran.
Stepped(m) ==
    IF m.kind = "if" /\ m.fc = frame_count
    THEN [m EXCEPT
            !.cond = IF Ip # m.jif THEN @
                     ELSE IF is_falsey(stack[Len(stack)]) THEN "falsey" ELSE "truthy",
            !.then_pops = IF Ip = m.jif + 3 THEN @ + 1 ELSE @,
            !.else_pops = IF Ip = m.jump + 3 THEN @ + 1 ELSE @,
            !.on_condition = @ /\ (Ip \in {m.jif + 3, m.jump + 3} =>
                                     Byte(Ip) = OpPop /\ Len(stack) = m.len + 1),
            !.in_then = @ \/ Ip \in (m.jif + 4)..(m.jump - 1),
            !.in_else = @ \/ Ip \in (m.jump + 4)..(m.end - 1)]
    ELSE IF m.kind \in {"and", "or"} /\ m.fc = frame_count
    THEN [m EXCEPT
            !.then_pops = IF Ip = m.jif THEN @ + 1 ELSE @,
            !.on_condition = @ /\ (Ip = m.jif => Byte(Ip) = OpPop /\ stack = m.stack),
            !.in_then = @ \/ Ip \in m.jump..(m.end - 1)]
    ELSE m

NewMark(s) ==
    [kind |-> s.kind, fc |-> frame_count, len |-> Len(stack), stack |-> stack,
     end |-> s.end,
     jif |-> s.jif, jump |-> s.jump, cond |-> "none", then_pops |-> 0,
     else_pops |-> 0, on_condition |-> TRUE, in_then |-> FALSE, in_else |-> FALSE]

MarksNext ==
    LET kept == [i \in DOMAIN Undone(marks) |-> Stepped(marks[i])]
        here == {s \in stmts : /\ s.kind \in {"expression", "if", "and", "or"}
                                /\ s.f = Frame.function
                                /\ s.start = Ip}
    IN  IF here = {} THEN kept
        ELSE Append(kept, NewMark(CHOOSE s \in here : TRUE))

\* The locals that are on the stack after the instruction at Ip: those it
\* finds there, and those defined at Ip, whose value the code before Ip has
\* left on top of the stack; the parameters of a function are defined at
\* its start, where the arguments are the top of the stack in their order.
SlotsNext ==
    LET here == {[fc |-> frame_count, born |-> s.start, position |-> s.jif,
                  index |-> Len(stack) - 1
                            - (IF s.start = 0 THEN Frame.function.arity - s.jif ELSE 0)] :
                    s \in {x \in stmts : /\ x.kind = "local"
                                          /\ x.f = Frame.function
                                          /\ x.start = Ip}}
    IN  {x \in slots : /\ x.index < Len(stack)
                       /\ \A n \in here : n.fc # x.fc \/ n.born # x.born}
        \cup here

Bookkeeping ==
    /\ marks' = MarksNext
    /\ slots' = SlotsNext
    /\ last' = [kind |-> "instruction", op |-> Byte(Ip), ip |-> Ip,
                frame_count |-> frame_count, stack |-> stack, globals |-> globals,
                out |-> out]
    /\ UNCHANGED <<compiled, queue, calls, stmts>>
    /\ UNCHANGED units

\* run continues with the next iteration of its loop
Continue(ip, new_stack, new_globals, new_out) ==
    /\ frames' = FramesAt(ip)
    /\ stack' = new_stack
    /\ globals' = new_globals
    /\ out' = new_out
    /\ UNCHANGED <<frame_count, status, result, diag>>
    /\ Bookkeeping

\* runtime_error reads the line at the frame's ip, which read_byte has
\* already moved past the instruction.
runtime_error_line(ip) == line_at(Chunk, ip)

\* A runtime_error whose Err is dropped: the diagnostic is printed and run goes on.
RuntimeError_continue(ip, new_stack, message) ==
    /\ frames' = FramesAt(ip)
    /\ stack' = new_stack
    /\ diag' = Append(diag, [line |-> runtime_error_line(ip), message |-> message])
    /\ UNCHANGED <<globals, out, frame_count, status, result>>
    /\ Bookkeeping

\* `self.runtime_error(message)?`: the diagnostic, and run returns the Err
RuntimeError(ip, new_stack, message) ==
    /\ frames' = FramesAt(ip)
    /\ stack' = new_stack
    /\ diag' = Append(diag, [line |-> runtime_error_line(ip), message |-> message])
    /\ status' = "error"
    /\ result' = NoResult
    /\ UNCHANGED <<globals, out, frame_count>>
    /\ Bookkeeping

\* ---- interpret ----
\* Vm::interpret up to the call of run.  The frame is stored at
\* frames[frame_count] with no check against FRAMES_MAX: the index is out of
\* bounds, and the thread panics, when the array is full.
Interpret ==
    /\ status \in {"idle", "ok", "error"}
    /\ queue # <<>>
    /\ Head(queue).call = "interpret"
    /\ LET callee == Head(queue).function IN
       /\ stack' = <<Function(callee)>>
       /\ IF frame_count < FRAMES_MAX
          THEN /\ frames' = [frames EXCEPT ![frame_count] =
                               [function |-> callee, ip |-> 0, stack_offset |-> 0]]
               /\ frame_count' = frame_count + 1
               /\ status' = "running"
          ELSE /\ status' = "panic"
               /\ UNCHANGED <<frames, frame_count>>
    /\ stmts' = Head(queue).stmts
    /\ compiled' = Head(queue).compiled
    /\ queue' = Tail(queue)
    /\ calls' = calls + 1
    /\ marks' = <<>>
    /\ slots' = {}
    /\ out' = <<>>
    /\ diag' = <<>>
    /\ result' = NoResult
    /\ last' = [kind |-> "interpret", op |-> 0, ip |-> 0, frame_count |-> frame_count,
                stack |-> stack, globals |-> globals, out |-> out]
    /\ UNCHANGED units
    /\ UNCHANGED globals

\* ---- the arms of run's match ----
\* A Return that yields Nil whatever is on the stack.
ExecReturn_nil ==
    /\ Fetch(OpReturn)
    /\ frames' = FramesAt(Ip + 1)
    /\ status' = "ok"
    /\ IF stack # <<>>
       THEN stack' = Popped(1) /\ result' = Some(Nil)
       ELSE stack' = stack /\ result' = NoResult
    /\ UNCHANGED <<globals, out, diag, frame_count>>
    /\ Bookkeeping

ExecReturn ==
    /\ Fetch(OpReturn)
    /\ frames' = FramesAt(Ip + 1)
    /\ status' = "ok"
    /\ IF stack # <<>>
       THEN stack' = Popped(1) /\ result' = Some(peek_value(0))
       ELSE stack' = stack /\ result' = NoResult
    /\ UNCHANGED <<globals, out, diag, frame_count>>
    /\ Bookkeeping

ExecConstant ==
    /\ Fetch(OpConstant)
    /\ Continue(Ip + 2, Append(stack, ConstantAt(Ip + 1)), globals, out)

ExecLongConstant ==
    /\ Fetch(OpLongConstant)
    /\ Continue(Ip + 4, Append(stack, Chunk.constants[LongIndex(Ip + 1) + 1]),
                globals, out)

RECURSIVE Reverse(_)
Reverse(s) == IF s = <<>> THEN <<>> ELSE Append(Reverse(Tail(s)), Head(s))

\* A Negate for numbers only.
ExecNegate_numbers ==
    /\ Fetch(OpNegate)
    /\ LET v == peek_value(0) IN
       CASE IsNumber(v) -> Continue(Ip + 1, Append(Popped(1), NumNeg(v)), globals, out)
         [] OTHER -> RuntimeError(Ip + 1, stack, "Operand must be a number or a string")

ExecNegate ==
    /\ Fetch(OpNegate)
    /\ LET v == peek_value(0) IN
       CASE IsNumber(v) -> Continue(Ip + 1, Append(Popped(1), NumNeg(v)), globals, out)
         [] IsString(v) ->
                Continue(Ip + 1, Append(Popped(1), String(Reverse(v.s))), globals, out)
         [] OTHER -> RuntimeError(Ip + 1, stack, "Operand must be a number or a string")

\* binary_op: both operands are popped before their types are looked at;
\* `value` is what op gives for the two numbers.
binary_op(value) ==
    IF IsNumber(peek_value(1)) /\ IsNumber(peek_value(0))
    THEN Continue(Ip + 1, Append(Popped(2), value), globals, out)
    ELSE RuntimeError(Ip + 1, Popped(2), "Operands have invalid types")

\* An Add that joins the strings the other way round.
ExecAdd_swapped ==
    /\ Fetch(OpAdd)
    /\ IF IsString(peek_value(0)) /\ IsString(peek_value(1))
       THEN Continue(Ip + 1,
                     Append(Popped(2), String(peek_value(0).s \o peek_value(1).s)),
                     globals, out)
       ELSE binary_op(NumAdd(peek_value(1), peek_value(0)))

ExecAdd ==
    /\ Fetch(OpAdd)
    /\ IF IsString(peek_value(0)) /\ IsString(peek_value(1))
       THEN Continue(Ip + 1,
                     Append(Popped(2), String(peek_value(1).s \o peek_value(0).s)),
                     globals, out)
       ELSE binary_op(NumAdd(peek_value(1), peek_value(0)))

ExecSubtract == Fetch(OpSubtract) /\ binary_op(NumSub(peek_value(1), peek_value(0)))

ExecMultiply == Fetch(OpMultiply) /\ binary_op(NumMul(peek_value(1), peek_value(0)))

ExecDivide == Fetch(OpDivide) /\ binary_op(NumDiv(peek_value(1), peek_value(0)))

BoolGreater(a, b) == Boolean(NumGreater(a, b))

BoolLess(a, b) == Boolean(NumLess(a, b))

ExecGreater == Fetch(OpGreater) /\ binary_op(BoolGreater(peek_value(1), peek_value(0)))

ExecLess == Fetch(OpLess) /\ binary_op(BoolLess(peek_value(1), peek_value(0)))

ExecEqual ==
    /\ Fetch(OpEqual)
    /\ Continue(Ip + 1,
                Append(Popped(2), Boolean(ValueEq(peek_value(1), peek_value(0)))),
                globals, out)

ExecNil == Fetch(OpNil) /\ Continue(Ip + 1, Append(stack, Nil), globals, out)

ExecTrue == Fetch(OpTrue) /\ Continue(Ip + 1, Append(stack, Boolean(TRUE)), globals, out)

ExecFalse == Fetch(OpFalse) /\ Continue(Ip + 1, Append(stack, Boolean(FALSE)), globals, out)

ExecNot ==
    /\ Fetch(OpNot)
    /\ Continue(Ip + 1, Append(Popped(1), Boolean(is_falsey(peek_value(0)))), globals, out)

\* ---- `{value:?}`: the Debug form Print writes ----
DigitChars == <<"0", "1", "2", "3", "4", "5", "6", "7", "8", "9">>

\* The decimal digits of a natural number.
RECURSIVE fmt_digits(_)
fmt_digits(n) ==
    IF n < 10 THEN <<DigitChars[n + 1]>>
    ELSE fmt_digits(n \div 10) \o <<DigitChars[(n % 10) + 1]>>

\* Debug for f64.  A whole number is written with ".0" (the numbers of the
\* model stay far below 10^16, where Rust turns to an exponent); what Rust
\* writes for the other finite values (the shortest decimal that reads back)
\* is not computed and stands as <<"<f64>">>.
fmt_f64(v) ==
    CASE v.k = "nan" -> <<"N", "a", "N">>
      [] v.k = "inf" -> IF v.n < 0 THEN <<"-", "i", "n", "f">> ELSE <<"i", "n", "f">>
      [] v.d = 1 ->
            (IF v.n < 0 THEN <<"-">> ELSE <<>>) \o fmt_digits(Abs(v.n)) \o <<".", "0">>
      [] OTHER -> <<"<f64>">>

\* Debug for str: in double quotes, with `"`, `\` and the newline escaped.
RECURSIVE fmt_escaped(_)
fmt_escaped(cs) ==
    IF cs = <<>> THEN <<>>
    ELSE (CASE Head(cs) = "\"" -> <<"\\", "\"">>
            [] Head(cs) = "\\" -> <<"\\", "\\">>
            [] Head(cs) = "\n" -> <<"\\", "n">>
            [] OTHER           -> <<Head(cs)>>) \o fmt_escaped(Tail(cs))

fmt_str(cs) == <<"\"">> \o fmt_escaped(cs) \o <<"\"">>

\* The Debug impl of FunctionObject: the name and the arity.
fmt_function(f) ==
    <<"F", "u", "n", "c", "t", "i", "o", "n", "O", "b", "j", "e", "c", "t", " ", "{", " ", "n", "a", "m", "e", ":", " ">> \o fmt_str(f.name) \o <<",", " ", "a", "r", "i", "t", "y", ":", " ">> \o fmt_digits(f.arity) \o <<" ", "}">>

\* derive(Debug) on Value and Object.  A native function is written as the
\* address of the host function, which stands as <<"<address>">>.
fmt_debug(v) ==
    CASE v.t = "num"    -> <<"N", "u", "m", "b", "e", "r", "(">> \o fmt_f64(v) \o <<")">>
      [] v.t = "bool"   -> IF v.b THEN <<"B", "o", "o", "l", "e", "a", "n", "(", "t", "r", "u", "e", ")">> ELSE <<"B", "o", "o", "l", "e", "a", "n", "(", "f", "a", "l", "s", "e", ")">>
      [] v.t = "nil"    -> <<"N", "i", "l">>
      [] v.t = "str"    -> <<"O", "b", "j", "e", "c", "t", "(", "S", "t", "r", "i", "n", "g", "(">> \o fmt_str(v.s) \o <<")", ")">>
      [] v.t = "fun"    -> <<"O", "b", "j", "e", "c", "t", "(", "F", "u", "n", "c", "t", "i", "o", "n", "(">> \o fmt_function(v.f) \o <<")", ")">>
      [] v.t = "native" -> <<"O", "b", "j", "e", "c", "t", "(", "N", "a", "t", "i", "v", "e", "F", "u", "n", "c", "t", "i", "o", "n", "(">> \o <<"<address>">> \o <<")", ")">>

ExecPrint ==
    /\ Fetch(OpPrint)
    /\ Continue(Ip + 1, Popped(1), globals, Append(out, fmt_debug(peek_value(0))))

ExecPop ==
    /\ Fetch(OpPop)
    /\ Continue(Ip + 1, IF stack = <<>> THEN stack ELSE Popped(1), globals, out)

\* HashMap::insert
Insert(map, name, value) ==
    [k \in DOMAIN map \cup {name} |-> IF k = name THEN value ELSE map[k]]

ExecDefineGlobal ==
    /\ Fetch(OpDefineGlobal)
    /\ Continue(Ip + 2, Popped(1), Insert(globals, ConstantAt(Ip + 1).s, peek_value(0)), out)

ExecGetGlobal ==
    /\ Fetch(OpGetGlobal)
    /\ LET name == ConstantAt(Ip + 1).s IN
       IF name \in DOMAIN globals
       THEN Continue(Ip + 2, Append(stack, globals[name]), globals, out)
       ELSE RuntimeError(Ip + 2, stack, "Undefined variable")

SetGlobal_define(name) ==
    Continue(Ip + 2, stack, Insert(globals, name, peek_value(0)), out)

\* The Entry::Occupied / Entry::Vacant arms on globals.entry(name).
SetGlobal(name) ==
    IF name \in DOMAIN globals
    THEN Continue(Ip + 2, stack, Insert(globals, name, peek_value(0)), out)
    ELSE RuntimeError(Ip + 2, stack, "Undefined variable")

ExecSetGlobal ==
    /\ Fetch(OpSetGlobal)
    /\ SetGlobal(ConstantAt(Ip + 1).s)

ExecGetLocal ==
    /\ Fetch(OpGetLocal)
    /\ LET slot == Byte(Ip + 1) + Frame.stack_offset IN
       Continue(Ip + 2, Append(stack, stack[slot + 1]), globals, out)

\* A SetLocal that pops the value it stores.
ExecSetLocal_pop ==
    /\ Fetch(OpSetLocal)
    /\ LET slot == Byte(Ip + 1) + Frame.stack_offset IN
       Continue(Ip + 2, Popped(1), globals, out)

ExecSetLocal ==
    /\ Fetch(OpSetLocal)
    /\ LET slot == Byte(Ip + 1) + Frame.stack_offset IN
       Continue(Ip + 2, [stack EXCEPT ![slot + 1] = peek_value(0)], globals, out)

ExecJumpIfFalse ==
    /\ Fetch(OpJumpIfFalse)
    /\ Continue(IF is_falsey(peek_value(0)) THEN Ip + 3 + U16At(Ip + 1) ELSE Ip + 3,
                stack, globals, out)

ExecJump ==
    /\ Fetch(OpJump)
    /\ Continue(Ip + 3 + U16At(Ip + 1), stack, globals, out)

ExecLoop ==
    /\ Fetch(OpLoop)
    /\ Continue(Ip + 3 - U16At(Ip + 1), stack, globals, out)

\* What clock() may return, in milliseconds.
ClockValues == {Number(1000), Number(1001)}

\* A Call that does not check the arity, and takes only functions.
ExecCall_unchecked ==
    /\ Fetch(OpCall)
    /\ LET argc   == Byte(Ip + 1)
           callee == stack[Len(stack) - argc]
       IN  CASE callee.t = "fun" /\ frame_count < FRAMES_MAX ->
                  /\ frames' = [FramesAt(Ip + 2) EXCEPT ![frame_count] =
                                   [function |-> callee.f, ip |-> 0,
                                    stack_offset |-> Len(stack) - argc - 1]]
                  /\ frame_count' = frame_count + 1
                  /\ UNCHANGED <<stack, globals, out, status, result, diag>>
                  /\ Bookkeeping
             [] OTHER -> RuntimeError(Ip + 2, stack, "Can only call functions")

\* The Call arm: the callee sits below the argc arguments.
ExecCall ==
    /\ Fetch(OpCall)
    /\ LET argc   == Byte(Ip + 1)
           callee == stack[Len(stack) - argc]
       IN  CASE callee.t = "fun" ->
                  IF argc # callee.f.arity
                  THEN RuntimeError(Ip + 2, stack, "Wrong number of arguments")
                  ELSE IF frame_count = FRAMES_MAX
                  THEN RuntimeError(Ip + 2, stack, "Stack overflow")
                  ELSE /\ frames' = [FramesAt(Ip + 2) EXCEPT ![frame_count] =
                                        [function |-> callee.f, ip |-> 0,
                                         stack_offset |-> Len(stack) - argc - 1]]
                       /\ frame_count' = frame_count + 1
                       /\ UNCHANGED <<stack, globals, out, status, result, diag>>
                       /\ Bookkeeping
             [] callee.t = "native" ->
                  \E v \in ClockValues :
                      Continue(Ip + 2, Append(Popped(argc + 1), v), globals, out)
             [] OTHER -> RuntimeError(Ip + 2, stack, "Can only call functions")

\* An index out of bounds, an unwrap of None or an invalid opcode in run.
RunPanic ==
    /\ status = "running"
    /\ ~Ready
    /\ status' = "panic"
    /\ UNCHANGED <<stack, globals, frames, frame_count, result, out, diag,
                   compiled, queue, calls, stmts, marks, slots, last>>
    /\ UNCHANGED units

\* The host binds a name to a native function, between interpretations.
DefineNative ==
    /\ status \in {"idle", "ok", "error"}
    /\ queue # <<>>
    /\ Head(queue).call = "define_native"
    /\ globals' = Insert(globals, Head(queue).name, NativeFunction(Head(queue).name))
    /\ queue' = Tail(queue)
    /\ UNCHANGED <<stack, frames, frame_count, status, result, out, diag,
                   compiled, calls, stmts, marks, slots, last>>
    /\ UNCHANGED units

\* compile returned None: the host has nothing to interpret.
CompileFails ==
    /\ status \in {"idle", "ok", "error"}
    /\ queue # <<>>
    /\ Head(queue).call = "compile"
    /\ compiled' = Head(queue).compiled
    /\ queue' = Tail(queue)
    /\ UNCHANGED <<stack, globals, frames, frame_count, status, result, out, diag,
                   calls, stmts, marks, slots, last>>
    /\ UNCHANGED units

Run ==
    \/ ExecReturn \/ ExecConstant \/ ExecLongConstant \/ ExecNegate \/ ExecAdd
    \/ ExecSubtract \/ ExecMultiply \/ ExecDivide \/ ExecGreater \/ ExecLess
    \/ ExecEqual \/ ExecNil \/ ExecTrue \/ ExecFalse \/ ExecNot \/ ExecPrint
    \/ ExecPop \/ ExecDefineGlobal \/ ExecGetGlobal \/ ExecSetGlobal
    \/ ExecGetLocal \/ ExecSetLocal \/ ExecJumpIfFalse \/ ExecJump \/ ExecLoop
    \/ ExecCall \/ RunPanic

Next == Interpret \/ DefineNative \/ CompileFails \/ Run

(***************************************************************************)
(* Inputs.  A session is the sequence of functions handed to interpret on  *)
(* one Vm, each the result of compile on a source text or a chunk built by *)
(* hand as the tests build theirs.                                         *)
(***************************************************************************)
\* The function compile returns for `source` with its statement spans, and
\* whether compile returned one, with what the compilation reported.
program_of(S) ==
    [ok |-> end_is_some(S), function |-> S.fn, stmts |-> S.stmts,
     compiled |-> [called |-> TRUE, source |-> S.src, some |-> end_is_some(S),
                   had_error |-> S.had_error, diags |-> S.diags,
                   overflow |-> S.overflow,
                   events |-> event(S, "returned", "").events,
                   doubles |-> S.doubles, scopes |-> S.scopes, turns |-> S.turns]]

Compiled(source) == program_of(compile_state(source))

\* The functions compile returns (Some) for the sources of one kind.
Programs(programs, kind) ==
    {[call |-> "interpret", function |-> c.program.function, stmts |-> c.program.stmts,
      compiled |-> c.program.compiled] :
        c \in {x \in programs : x.kind = kind /\ x.program.ok}}

\* The sources compile returns None for.
Rejected(programs) ==
    {[call |-> "compile", compiled |-> c.program.compiled] :
        c \in {x \in programs : ~x.program.ok}}

BindClock == [call |-> "define_native", name |-> <<"c", "l", "o", "c", "k">>]

HandBuilt(chunk) ==
    [call |-> "interpret",
     function |-> [arity |-> 0, chunk |-> chunk, name |-> <<"<", "m", "a", "i", "n", ">">>],
     stmts |-> {}, compiled |-> NotCompiled]

\* tests::add_long_constants: 42 + 3 through LongConstant
AddLongConstantsChunk ==
    LET c1 == add_constant(EmptyChunk, Number(42))
        k1 == write_slice(write(c1.chunk, OpLongConstant, 123), <<c1.index, 0, 0>>, 123)
        c2 == add_constant(k1, Number(3))
        k2 == write_slice(write(c2.chunk, OpLongConstant, 123), <<c2.index, 0, 0>>, 123)
    IN  write(write(k2, OpAdd, 123), OpReturn, 123)

\* tests::basic_math: -((1.2 + 3.4) / 5.6) through Constant
BasicMathChunk ==
    LET c1 == add_constant(EmptyChunk, Fin(12, 10))
        k1 == write(write(c1.chunk, OpConstant, 123), c1.index, 123)
        c2 == add_constant(k1, Fin(34, 10))
        k2 == write(write(c2.chunk, OpConstant, 123), c2.index, 123)
        k3 == write(k2, OpAdd, 123)
        c3 == add_constant(k3, Fin(56, 10))
        k4 == write(write(c3.chunk, OpConstant, 123), c3.index, 123)
    IN  write(write(write(k4, OpDivide, 123), OpNegate, 123), OpReturn, 123)

\* A chunk whose code does not end with Return.
NoReturnChunk == write(EmptyChunk, OpNil, 1)

\* A chunk that only returns.
ReturnChunk == write(EmptyChunk, OpReturn, 1)

\* A chunk with a NaN among its constants, which compares its own function,
\* found in slot 0, with itself.
NaNConstantChunk ==
    write(write_slice(add_constant(EmptyChunk, NaN).chunk,
                      <<OpGetLocal, 0, OpGetLocal, 0, OpEqual>>, 1),
          OpReturn, 1)

\* What every generated program starts with.
Prelude ==
    <<"v", "a", "r", " ", "g", " ", "=", " ", "1", ";", " ", "f", "u", "n",
      " ", "f", "(", "a", ")", " ", "{", " ", "r", "e", "t", "u", "r", "n",
      " ", "a", ";", " ", "}", " ">>

BlockOpen ==
    <<"{", " ", "v", "a", "r", " ", "l", " ", "=", " ", "2", ";", " ">>

BlockClose ==
    <<" ", "}">>

Atoms ==
    {<<"0">>, <<"1">>, <<"\"", "\"">>, <<"\"", "a", "\"">>, <<"n", "i", "l">>,
     <<"t", "r", "u", "e">>, <<"f", "a", "l", "s", "e">>, <<"g">>, <<"f">>, <<"l">>,
     <<"(", "0", "/", "0", ")">>}

FewAtoms ==
    {<<"1">>, <<"\"", "a", "\"">>, <<"n", "i", "l">>, <<"g">>, <<"(", "0", "/", "0", ")">>}

\* Operators tried on every pair of Atoms, and on every pair of FewAtoms.
PairOps == {<<"=", "=">>, <<"a", "n", "d">>, <<"o", "r">>}

FewOps ==
    {<<"+">>, <<"-">>, <<"*">>, <<"/">>, <<"<">>, <<">">>, <<"<", "=">>, <<">", "=">>,
     <<"!", "=">>}

Targets == {<<"g">>, <<"l">>, <<"u">>}

Infix(a, op, b) == a \o <<" ">> \o op \o <<" ">> \o b

Expressions ==
    Atoms
    \cup {<<"-">> \o a : a \in Atoms}
    \cup {<<"!">> \o a : a \in Atoms}
    \cup {Infix(a, op, b) : a \in Atoms, op \in PairOps, b \in Atoms}
    \cup {Infix(a, op, b) : a \in FewAtoms, op \in FewOps, b \in FewAtoms}
    \cup {Infix(x, <<"=">>, a) : x \in Targets, a \in Atoms}
    \cup {Infix(x, <<"=">>, Infix(a, op, b)) :
            x \in Targets, a \in FewAtoms, op \in {<<"+">>, <<"o", "r">>}, b \in FewAtoms}
    \cup {<<"f", "(", ")">>, <<"f", "(", "1", ")">>, <<"g", "(", ")">>,
          <<"c", "l", "o", "c", "k", "(", ")">>}

ExpressionStatements == {e \o <<";">> : e \in Expressions}

StatementSources ==
    {Prelude \o st : st \in ExpressionStatements}
    \cup {Prelude \o BlockOpen \o st \o BlockClose : st \in ExpressionStatements}

SrcDefine ==
    <<"v", "a", "r", " ", "g", " ", "=", " ", "1", ";", " ", "v", "a", "r",
      " ", "s", " ", "=", " ", "\"", "a", "\"", ";">>

SrcUpdate ==
    <<"g", " ", "=", " ", "g", " ", "+", " ", "1", ";", " ", "p", "r", "i",
      "n", "t", " ", "g", ";">>

SrcSetUndefined ==
    <<"p", "r", "i", "n", "t", " ", "1", ";", " ", "u", " ", "=", " ", "g",
      ";", " ", "p", "r", "i", "n", "t", " ", "2", ";">>

SrcErrorLine ==
    <<"p", "r", "i", "n", "t", " ", "1", ";", "\n", "p", "r", "i", "n", "t",
      " ", "-", "n", "i", "l", "\n", ";", "\n", "p", "r", "i", "n", "t", " ",
      "3", ";">>

SrcRecursion ==
    <<"f", "u", "n", " ", "r", "(", ")", " ", "{", " ", "r", "(", ")", ";",
      " ", "}", " ", "r", "(", ")", ";">>

SrcWhile ==
    <<"v", "a", "r", " ", "i", " ", "=", " ", "0", ";", " ", "w", "h", "i",
      "l", "e", " ", "(", "i", " ", "<", " ", "2", ")", " ", "{", " ", "i",
      " ", "=", " ", "i", " ", "+", " ", "1", ";", " ", "}", " ", "p", "r",
      "i", "n", "t", " ", "i", ";">>

SrcClock ==
    <<"p", "r", "i", "n", "t", " ", "c", "l", "o", "c", "k", "(", ")", " ",
      ">", " ", "0", ";">>

\* var a = 1; { var a = 2; print a; } print a;
SrcShadow ==
    <<"v", "a", "r", " ", "a", " ", "=", " ", "1", ";", " ", "{", " ", "v",
      "a", "r", " ", "a", " ", "=", " ", "2", ";", " ", "p", "r", "i", "n",
      "t", " ", "a", ";", " ", "}", " ", "p", "r", "i", "n", "t", " ", "a",
      ";">>

\* var x = 0; for (var i = 1; i <= 3; i = i + 1) { x = x + i; } print x;
SrcFor ==
    <<"v", "a", "r", " ", "x", " ", "=", " ", "0", ";", " ", "f",
      "o", "r", " ", "(", "v", "a", "r", " ", "i", " ", "=", " ",
      "1", ";", " ", "i", " ", "<", "=", " ", "3", ";", " ", "i",
      " ", "=", " ", "i", " ", "+", " ", "1", ")", " ", "{", " ",
      "x", " ", "=", " ", "x", " ", "+", " ", "i", ";", " ", "}",
      " ", "p", "r", "i", "n", "t", " ", "x", ";">>

\* print 1 + 2 * 3;
SrcPrecedence ==
    <<"p", "r", "i", "n", "t", " ", "1", " ", "+", " ", "2", " ", "*", " ",
      "3", ";">>

\* The operators binary handles.
BinaryOperators == FewOps \cup {<<"=", "=">>}

\* 1 op1 2 op2 3; and the same with either pair in parentheses
Triple(op1, op2) ==
    <<"1", " ">> \o op1 \o <<" ", "2", " ">> \o op2 \o <<" ", "3", ";">>

LeftGrouped(op1, op2) ==
    <<"(", "1", " ">> \o op1 \o <<" ", "2", ")", " ">> \o op2 \o <<" ", "3", ";">>

RightGrouped(op1, op2) ==
    <<"1", " ">> \o op1 \o <<" ", "(", "2", " ">> \o op2 \o <<" ", "3", ")", ";">>

TripleSources == {Triple(op1, op2) : op1, op2 \in BinaryOperators}

\* { var a = 1; { var b = a; a = b + 1; } var c = 2; { var d = c; c = d + a; print c; } }
SrcLocals ==
    <<"{", " ", "v", "a", "r", " ", "a", " ", "=", " ", "1", ";", " ", "{", " ",
      "v", "a", "r", " ", "b", " ", "=", " ", "a", ";", " ", "a", " ", "=", " ",
      "b", " ", "+", " ", "1", ";", " ", "}", " ", "v", "a", "r", " ", "c", " ",
      "=", " ", "2", ";", " ", "{", " ", "v", "a", "r", " ", "d", " ", "=", " ",
      "c", ";", " ", "c", " ", "=", " ", "d", " ", "+", " ", "a", ";", " ", "p",
      "r", "i", "n", "t", " ", "c", ";", " ", "}", " ", "}">>

\* fun f(a, b) { var c = a; { var d = b; c = d; } print c; } { var x = 1; f(x, 2); }
SrcParameterLocals ==
    <<"f", "u", "n", " ", "f", "(", "a", ",", " ", "b", ")", " ", "{", " ", "v",
      "a", "r", " ", "c", " ", "=", " ", "a", ";", " ", "{", " ", "v", "a", "r",
      " ", "d", " ", "=", " ", "b", ";", " ", "c", " ", "=", " ", "d", ";", " ",
      "}", " ", "p", "r", "i", "n", "t", " ", "c", ";", " ", "}", " ", "{", " ",
      "v", "a", "r", " ", "x", " ", "=", " ", "1", ";", " ", "f", "(", "x", ",",
      " ", "2", ")", ";", " ", "}">>

\* var a = "foo"; var b = "bar"; print a + b;
SrcConcat ==
    <<"v", "a", "r", " ", "a", " ", "=", " ", "\"", "f", "o", "o", "\"",
      ";", " ", "v", "a", "r", " ", "b", " ", "=", " ", "\"", "b", "a",
      "r", "\"", ";", " ", "p", "r", "i", "n", "t", " ", "a", " ", "+",
      " ", "b", ";">>

\* print 1 + "a";
SrcAddMixed ==
    <<"p", "r", "i", "n", "t", " ", "1", " ", "+", " ", "\"", "a", "\"",
      ";">>

\* print -"ab"; print --"ab"; print --1; print -nil;
SrcNegate ==
    <<"p", "r", "i", "n", "t", " ", "-", "\"", "a", "b", "\"", ";", " ",
      "p", "r", "i", "n", "t", " ", "-", "-", "\"", "a", "b", "\"", ";",
      " ", "p", "r", "i", "n", "t", " ", "-", "-", "1", ";", " ", "p", "r",
      "i", "n", "t", " ", "-", "n", "i", "l", ";">>

\* A return in top-level code: alone, in a block, under an if, in a loop.
TopLevelReturnSources ==
    {<<"r", "e", "t", "u", "r", "n", " ", "1", ";">>,
     <<"r", "e", "t", "u", "r", "n", ";">>,
     <<"{", " ", "r", "e", "t", "u", "r", "n", " ", "1", ";", " ", "}">>,
     <<"v", "a", "r", " ", "g", " ", "=", " ", "1", ";", " ", "i", "f", " ",
       "(", "g", ")", " ", "r", "e", "t", "u", "r", "n", " ", "g", ";">>,
     <<"w", "h", "i", "l", "e", " ", "(", "f", "a", "l", "s", "e", ")", " ",
       "{", " ", "r", "e", "t", "u", "r", "n", ";", " ", "}">>}

\* A return in a function body and nowhere else.
FunctionReturnSources ==
    {<<"f", "u", "n", " ", "f", "(", ")", " ", "{", " ", "r", "e", "t", "u",
       "r", "n", " ", "1", ";", " ", "}">>,
     <<"f", "u", "n", " ", "f", "(", ")", " ", "{", " ", "{", " ", "r", "e",
       "t", "u", "r", "n", ";", " ", "}", " ", "}">>,
     <<"f", "u", "n", " ", "f", "(", "a", ")", " ", "{", " ", "i", "f", " ",
       "(", "a", ")", " ", "r", "e", "t", "u", "r", "n", " ", "a", ";",
       " ", "r", "e", "t", "u", "r", "n", ";", " ", "}", " ", "{", " ",
       "f", "(", "1", ")", ";", " ", "}">>}

\* A local declared twice in one scope.
DuplicateLocalSources ==
    {<<"{", " ", "v", "a", "r", " ", "a", " ", "=", " ", "1", ";", " ", "v",
       "a", "r", " ", "a", " ", "=", " ", "2", ";", " ", "}">>,
     <<"{", " ", "v", "a", "r", " ", "a", " ", "=", " ", "1", ";", " ", "{",
       " ", "v", "a", "r", " ", "b", " ", "=", " ", "1", ";", " ", "v",
       "a", "r", " ", "c", ";", " ", "v", "a", "r", " ", "b", ";", " ",
       "}", " ", "}">>,
     <<"f", "u", "n", " ", "f", "(", "a", ",", " ", "a", ")", " ", "{", " ",
       "}">>,
     <<"f", "u", "n", " ", "f", "(", "a", ")", " ", "{", " ", "v", "a", "r",
       " ", "a", " ", "=", " ", "2", ";", " ", "}">>}

\* A name declared again in a nested scope, or in a scope that follows.
NestedLocalSources ==
    {<<"{", " ", "v", "a", "r", " ", "a", " ", "=", " ", "1", ";", " ", "{",
       " ", "v", "a", "r", " ", "a", " ", "=", " ", "2", ";", " ", "}",
       " ", "}">>,
     <<"{", " ", "v", "a", "r", " ", "a", " ", "=", " ", "1", ";", " ", "{",
       " ", "v", "a", "r", " ", "b", " ", "=", " ", "1", ";", " ", "{",
       " ", "v", "a", "r", " ", "a", ";", " ", "v", "a", "r", " ", "b",
       ";", " ", "}", " ", "}", " ", "}">>,
     <<"{", " ", "{", " ", "v", "a", "r", " ", "a", " ", "=", " ", "1", ";",
       " ", "}", " ", "v", "a", "r", " ", "a", " ", "=", " ", "2", ";",
       " ", "}">>,
     <<"f", "u", "n", " ", "f", "(", "a", ")", " ", "{", " ", "{", " ", "v",
       "a", "r", " ", "a", " ", "=", " ", "2", ";", " ", "}", " ", "}">>}

\* A local read in its own initializer.
OwnInitializerSources ==
    {<<"{", " ", "v", "a", "r", " ", "a", " ", "=", " ", "a", ";", " ", "}">>,
     <<"{", " ", "v", "a", "r", " ", "a", " ", "=", " ", "1", ";", " ", "{",
       " ", "v", "a", "r", " ", "a", " ", "=", " ", "a", ";", " ", "}",
       " ", "}">>,
     <<"{", " ", "v", "a", "r", " ", "a", " ", "=", " ", "1", " ", "+", " ",
       "a", ";", " ", "}">>}

\* A local read after its declaration ended.
InitializedLocalSources ==
    {<<"{", " ", "v", "a", "r", " ", "a", " ", "=", " ", "1", ";", " ", "p",
       "r", "i", "n", "t", " ", "a", ";", " ", "}">>,
     <<"{", " ", "v", "a", "r", " ", "a", " ", "=", " ", "1", ";", " ", "v",
       "a", "r", " ", "b", " ", "=", " ", "a", ";", " ", "}">>,
     <<"{", " ", "v", "a", "r", " ", "a", ";", " ", "a", " ", "=", " ", "a",
       ";", " ", "}">>}

\* An assignment whose left side is no variable.
InvalidTargetSources ==
    {<<"1", " ", "=", " ", "2", ";">>,
     <<"a", " ", "+", " ", "b", " ", "=", " ", "c", ";">>,
     <<"!", "a", " ", "=", " ", "1", ";">>,
     <<"(", "a", ")", " ", "=", " ", "1", ";">>,
     <<"f", "(", ")", " ", "=", " ", "1", ";">>,
     <<"a", " ", "*", " ", "b", " ", "=", " ", "c", ";">>,
     <<"\"", "a", "\"", " ", "=", " ", "1", ";">>}

\* Sources with a syntax error: a statement in error before a good one, two
\* around a good one, a character no token starts with, a string left open.
ErrorSources ==
    {<<"p", "r", "i", "n", "t", " ", ";", " ", "p", "r", "i", "n", "t", " ", "1", ";">>,
     <<"p", "r", "i", "n", "t", " ", ";", " ", "v", "a", "r", " ", "a", " ",
       "=", " ", "1", ";", " ", "p", "r", "i", "n", "t", " ", "a", ";",
       " ", "p", "r", "i", "n", "t", " ", ";">>,
     <<"p", "r", "i", "n", "t", " ", "1", ";", " ", "@">>,
     <<"v", "a", "r", " ", "s", " ", "=", " ", "\"", "a", "b", "c">>}

\* A block left open, with a character no token starts with and an
\* expression statement that lacks its `;` in it.
SrcOpenBlock == <<"{", " ", "@", " ", "1", " ", "2", ";", " ", "a">>

\* Sources that end before they should: a block left open, with and without
\* a blank after its last token, a statement and an expression cut short, a
\* `}` and a `)` with nothing to close, characters no token starts with, a
\* string left open in a block, and the empty source.
TruncatedSources ==
    {<<"{", " ", "p", "r", "i", "n", "t", " ", "1", ";">>,
     <<"{", " ", "a">>,
     <<"{", " ", "a", " ">>,
     <<"{", " ", "{", " ", "v", "a", "r", " ", "a", " ", "=">>,
     <<"p", "r", "i", "n", "t", " ", "1", " ", "+">>,
     <<"v", "a", "r", " ", "a", " ", "=", " ", "(", "1">>,
     <<"}", " ", "p", "r", "i", "n", "t", " ", "1", ";">>,
     <<")", ")", " ", "}">>,
     <<"@", "#", " ", "@", " ", "1", ";", " ", "#">>,
     <<"i", "f", " ", "(", "@", " ", "1", " ", "#", " ", "@", ")", " ", "{">>,
     <<"{", " ", "p", "r", "i", "n", "t", " ", "\"", "a", ";", " ", "}">>,
     <<"f", "u", "n", " ", "f", "(", "a", ",">>,
     SrcOpenBlock,
     <<"w", "h", "i", "l", "e", " ", "(", "t", "r", "u", "e", ")", " ", "{", " ",
       "f", "o", "r", " ", "(", ";">>,
     <<>>}

\* One more than a u8 counts.
TooMany == U8_MAX + 1

\* n times the piece, one after the other.
Repeated(piece, n) ==
    [i \in 1..(n * Len(piece)) |-> piece[((i - 1) % Len(piece)) + 1]]

\* f(nil, ..., nil); with n arguments
SrcArguments(n) ==
    <<"f", "(">> \o Repeated(<<"n", "i", "l", ",">>, n - 1)
                 \o <<"n", "i", "l", ")", ";">>

ParameterName(i) ==
    <<"p", DigitChars[(i \div 100) + 1], DigitChars[((i \div 10) % 10) + 1],
      DigitChars[(i % 10) + 1]>>

\* p001,p002,...: n names of four characters, with a comma between two.
ParameterNames(n) ==
    [i \in 1..(5 * n - 1) |->
        IF i % 5 = 0 THEN "," ELSE ParameterName(((i - 1) \div 5) + 1)[i % 5]]

\* fun f(p001,...) { } with n parameters
SrcParameters(n) ==
    <<"f", "u", "n", " ", "f", "(">> \o ParameterNames(n) \o <<")", " ", "{", " ", "}">>

TooManySources == {SrcArguments(TooMany), SrcParameters(TooMany)}

\* fun f(p001,...,p255) { var y = 1; var z = 2; print z; } f(nil,...,nil);
\* as many parameters as a function may have, and two locals more.
SrcManyLocals ==
    <<"f", "u", "n", " ", "f", "(">> \o ParameterNames(U8_MAX)
        \o <<")", " ", "{", " ", "v", "a", "r", " ", "y", " ", "=", " ", "1", ";", " ",
             "v", "a", "r", " ", "z", " ", "=", " ", "2", ";", " ",
             "p", "r", "i", "n", "t", " ", "z", ";", " ", "}", " ">>
        \o SrcArguments(U8_MAX)

\* if (true) print 1; else print 2;
SrcIfTrue ==
    <<"i", "f", " ", "(", "t", "r", "u", "e", ")", " ", "p", "r", "i",
     "n", "t", " ", "1", ";", " ", "e", "l", "s", "e", " ", "p", "r",
     "i", "n", "t", " ", "2", ";">>

\* if (false) print 1; else print 2;
SrcIfFalse ==
    <<"i", "f", " ", "(", "f", "a", "l", "s", "e", ")", " ", "p", "r",
     "i", "n", "t", " ", "1", ";", " ", "e", "l", "s", "e", " ", "p",
     "r", "i", "n", "t", " ", "2", ";">>

\* if (nil) print 1; print 2;
SrcIfNoElse ==
    <<"i", "f", " ", "(", "n", "i", "l", ")", " ", "p", "r", "i", "n",
     "t", " ", "1", ";", " ", "p", "r", "i", "n", "t", " ", "2", ";">>

\* if (1) { } else { } if (nil) { } else { }
SrcIfEmpty ==
    <<"i", "f", " ", "(", "1", ")", " ", "{", " ", "}", " ", "e", "l",
     "s", "e", " ", "{", " ", "}", " ", "i", "f", " ", "(", "n", "i",
     "l", ")", " ", "{", " ", "}", " ", "e", "l", "s", "e", " ", "{",
     " ", "}">>

\* var a = 1; if (a > 0) { a = 2; } else a = 3; print a;
SrcIfGlobal ==
    <<"v", "a", "r", " ", "a", " ", "=", " ", "1", ";", " ", "i", "f",
     " ", "(", "a", " ", ">", " ", "0", ")", " ", "{", " ", "a", " ",
     "=", " ", "2", ";", " ", "}", " ", "e", "l", "s", "e", " ", "a",
     " ", "=", " ", "3", ";", " ", "p", "r", "i", "n", "t", " ", "a",
     ";">>

\* { var a = nil; if (a) a = 1; else if (!a) { var b = 2; a = b; } print a; }
SrcIfNested ==
    <<"{", " ", "v", "a", "r", " ", "a", " ", "=", " ", "n", "i", "l",
     ";", " ", "i", "f", " ", "(", "a", ")", " ", "a", " ", "=", " ",
     "1", ";", " ", "e", "l", "s", "e", " ", "i", "f", " ", "(", "!",
     "a", ")", " ", "{", " ", "v", "a", "r", " ", "b", " ", "=", " ",
     "2", ";", " ", "a", " ", "=", " ", "b", ";", " ", "}", " ", "p",
     "r", "i", "n", "t", " ", "a", ";", " ", "}">>

\* var i = 0; while (i < 2) { if (i == 0) print "z"; i = i + 1; }
SrcIfLoop ==
    <<"v", "a", "r", " ", "i", " ", "=", " ", "0", ";", " ", "w", "h",
     "i", "l", "e", " ", "(", "i", " ", "<", " ", "2", ")", " ", "{",
     " ", "i", "f", " ", "(", "i", " ", "=", "=", " ", "0", ")", " ",
     "p", "r", "i", "n", "t", " ", "\"", "z", "\"", ";", " ", "i", " ",
     "=", " ", "i", " ", "+", " ", "1", ";", " ", "}">>

IfSources ==
    {SrcIfTrue, SrcIfFalse, SrcIfNoElse, SrcIfEmpty,
     SrcIfGlobal, SrcIfNested, SrcIfLoop}

\* The whole programs, beside the generated ones.
ProgramSources ==
    {SrcShadow, SrcFor, SrcPrecedence, SrcConcat, SrcAddMixed, SrcNegate}
    \cup TopLevelReturnSources \cup FunctionReturnSources
    \cup DuplicateLocalSources \cup NestedLocalSources
    \cup OwnInitializerSources \cup InitializedLocalSources
    \cup InvalidTargetSources \cup TooManySources \cup ErrorSources
    \cup IfSources \cup {LongIfSource(distance) : distance \in ShortDistances}
    \cup TripleSources \cup {SrcLocals, SrcParameterLocals, SrcManyLocals}
    \cup TruncatedSources

ReplSources ==
    {SrcDefine, SrcUpdate, SrcSetUndefined, SrcErrorLine, SrcWhile}

DeepSources == {SrcRecursion}

NativeSources == {SrcClock, Prelude \o <<"c", "l", "o", "c", "k", "(", ")", ";">>}

HandBuiltPrograms ==
    {HandBuilt(AddLongConstantsChunk), HandBuilt(BasicMathChunk),
     HandBuilt(NoReturnChunk), HandBuilt(NaNConstantChunk)}

\* One more call of interpret than the Vm has frames.
RepeatSession == [i \in 1..(FRAMES_MAX + 1) |-> HandBuilt(ReturnChunk)]

\* The longest session of several programs.
MaxSession == 2

RECURSIVE SessionsOf(_, _)
SessionsOf(programs, n) ==
    IF n = 0 THEN {<<>>}
    ELSE {q \o tl : q \in SessionsOf(programs, n - 1), tl \in {<<>>} \cup {<<p>> : p \in programs}}

\* One program per generated statement or whole program, run if it compiled;
\* the programs that call clock, after
\* the host bound it; the programs that fill the frame array, once and twice;
\* and every session of at most MaxSession of the others.
SessionsFrom(programs) ==
    {<<p>> : p \in Programs(programs, "statement") \cup Rejected(programs)}
    \cup {<<BindClock, p>> : p \in Programs(programs, "native")}
    \cup UNION {{<<p>>, <<p, p>>} : p \in Programs(programs, "deep")}
    \cup SessionsOf(Programs(programs, "repl") \cup HandBuiltPrograms, MaxSession)
    \cup {RepeatSession}

LongIfPrograms ==
    {[kind |-> "statement", program |-> program_of(long_if_state(distance))] :
        distance \in ShortDistances \cup LongDistances}

\* The function with the jump patched at once, not a result of compile.
JumpAtOncePrograms ==
    {[kind |-> "statement",
      program |-> [ok |-> TRUE, function |-> jump_at_once_state.fn,
                   stmts |-> jump_at_once_state.stmts, compiled |-> NotCompiled]]}

Sessions ==
    SessionsFrom({[kind |-> IF src \in ReplSources THEN "repl"
                            ELSE IF src \in NativeSources THEN "native"
                            ELSE IF src \in DeepSources THEN "deep"
                            ELSE "statement",
                   program |-> Compiled(src)] :
                     src \in StatementSources \cup ProgramSources \cup ReplSources
                             \cup NativeSources \cup DeepSources}
                 \cup LongIfPrograms \cup JumpAtOncePrograms)

Init == VmNew /\ queue \in Sessions /\ scan = NotScanning /\ written = NotWriting

Spec == Init /\ [][Next]_vars

(***************************************************************************)
(* The Scanner by itself: Scanner::new on a source, then next_token called *)
(* again and again, a few times more after the source has ended.           *)
(*   scan : the source, the scanner, the number of calls made, the result  *)
(*          of the last call (token), the scanner it started from (from),  *)
(*          the result of the call before (earlier), and the number of Eof *)
(*          tokens returned so far (eofs)                                  *)
(***************************************************************************)
\* The characters the generated sources are made of, and their greatest length.
ScanAlphabet == {"a", "1", ".", "\n", "/", "\"", " "}

ScanLen == 4

\* Calls of next_token made after the first Eof.
MaxEofCalls == 3

\* The reserved words and their token types.
Keywords ==
    {<<<<"a", "n", "d">>, "And">>,
     <<<<"c", "l", "a", "s", "s">>, "Class">>,
     <<<<"e", "l", "s", "e">>, "Else">>,
     <<<<"f", "a", "l", "s", "e">>, "False">>,
     <<<<"f", "o", "r">>, "For">>,
     <<<<"f", "u", "n">>, "Fun">>,
     <<<<"i", "f">>, "If">>,
     <<<<"n", "i", "l">>, "Nil">>,
     <<<<"o", "r">>, "Or">>,
     <<<<"p", "r", "i", "n", "t">>, "Print">>,
     <<<<"r", "e", "t", "u", "r", "n">>, "Return">>,
     <<<<"s", "u", "p", "e", "r">>, "Super">>,
     <<<<"t", "h", "i", "s">>, "This">>,
     <<<<"t", "r", "u", "e">>, "True">>,
     <<<<"v", "a", "r">>, "Var">>,
     <<<<"w", "h", "i", "l", "e">>, "While">>}

KeywordLexemes == {k[1] : k \in Keywords}

\* Every reserved word, every proper prefix of one, every one extended by a
\* letter, a digit or an underscore, and some in capitals.
KeywordSources ==
    UNION {{SubSeq(w, 1, n) \o tl : n \in 1..Len(w),
                                    tl \in {<<>>, <<"a">>, <<"s">>, <<"_">>, <<"1">>,
                                            <<"n", "d">>}} :
             w \in KeywordLexemes}
    \cup {<<"A", "n", "d">>,
     <<"I", "F">>,
     <<"N", "i", "l">>,
     <<"n", "I", "l">>,
     <<"_", "a", "n", "d">>,
     <<"a", "n", "d", "_", "o", "r">>,
     <<"f", "o", "r", "t", "u", "n", "e", " ", "f", " ", "f", "o", " ", "f", "u">>,
     <<"t", " ", "t", "h", " ", "t", "r", " ", "t", "r", "u", " ", "t", "r", "u", "e", " ", "t", "r", "u", "e", "e">>,
     <<"x", " ", "a", "n", "d", " ", "y", " ", "o", "r", " ", "z">>}

\* Numbers with and without a fractional part, and dots that start none.
NumberSources ==
    {<<"1", ".", "5">>,
     <<"1", "2", ".", "2", "5">>,
     <<"1", ".">>,
     <<"1", ".", "a">>,
     <<".", "5">>,
     <<"1", ".", ".", "2">>,
     <<"3", ".", "1", "4", ";">>,
     <<"0", ".", "5", "+", "1">>,
     <<"1", ".", "5", ".", "2">>,
     <<"1", "0", ".", "2", "5", " ", "+", " ", "7">>,
     <<"x", " ", "=", " ", "2", ".", "5", "0", ";">>,
     <<"1", " ", ".", " ", "5">>}

\* Newlines in whitespace, in comments and in strings; strings left open.
LineSources ==
    {<<"\"", "a", "\n", "b", "\"", " ", "c">>,
     <<"a", " ", "/", "/", " ", "b", "\n", "c">>,
     <<"/", "/", " ", "x", "\n", "/", "/", " ", "y", "\n", "z">>,
     <<"\"", "a", "\n", "\n", "b">>,
     <<"a", "\n", "\n", "\n", "b">>,
     <<"\"", "\n", "\"", " ", "+", "\n", "\"", "\n", "\"">>,
     <<"1", " ", "/", "/", " ", "\"", "\n", "\"">>,
     <<"a", " ", "/", "\n", "/", " ", "b">>,
     <<"\n", "\n">>,
     <<"\"", "a", "\"", " ", "/", "/", " ", "b">>,
     <<"a", "\r", "\n", "\t", "b">>}

ScannerSources ==
    UNION {[1..n -> ScanAlphabet] : n \in 0..ScanLen}
    \cup KeywordSources \cup NumberSources \cup LineSources

\* Before the first call there is no result.
NotCalled == [ok |-> FALSE, token |-> NoToken, err |-> NoError, sc |-> NewScanner]

\* Scanner::new(source)
ScannerNew ==
    scan \in {[source |-> src, scanner |-> NewScanner, called |-> 0, token |-> NotCalled,
               from |-> NewScanner, earlier |-> NotCalled, eofs |-> 0] :
                 src \in ScannerSources}

IsEof(r) == r.ok /\ r.token.token_type = "Eof"

\* One call of next_token on the scanner.
NextToken ==
    /\ scan.eofs <= MaxEofCalls
    /\ scan' = [scan EXCEPT
                  !.scanner = next_token(scan.source, scan.scanner).sc,
                  !.called = @ + 1,
                  !.token = next_token(scan.source, scan.scanner),
                  !.from = scan.scanner,
                  !.earlier = scan.token,
                  !.eofs = IF IsEof(next_token(scan.source, scan.scanner))
                           THEN @ + 1 ELSE @]
    /\ UNCHANGED <<vm_vars, written>>

ScannerInit == VmNew /\ queue = <<>> /\ ScannerNew /\ written = NotWriting

ScannerNext == NextToken

ScannerSpec == ScannerInit /\ [][ScannerNext]_vars

(***************************************************************************)
(* Properties.  They read the state an instruction left beside the state   *)
(* it started from, which `last` holds.                                    *)
(***************************************************************************)
Top(s) == s[Len(s)]

Executed(op) == last.kind = "instruction" /\ last.op = op

\* The frame the last instruction ran in, its code, its operand bytes and
\* the constant its first operand names.
LastFrame == frames[last.frame_count - 1]

LastCode == LastFrame.function.chunk.code

LastOperand(n) == LastCode[last.ip + n + 1]

LastConstant == LastFrame.function.chunk.constants[LastOperand(1) + 1]

\* The callee of the Call executed last.
LastCallee == last.stack[Len(last.stack) - LastOperand(1)]

Falsey == {Nil, Boolean(FALSE)}

\* An expression statement under way in the current frame, and one whose
\* code has just been left.
StatementUnderWay ==
    /\ status = "running"
    /\ marks # <<>>
    /\ Top(marks).kind = "expression"
    /\ Top(marks).fc = frame_count

StatementDone == StatementUnderWay /\ Top(marks).end = Ip

\* C1: in a program that compiled without error, when the code of an
\* expression statement has run to its end, the operand stack is as long as
\* it was when the statement started.
C1_ExpressionStatementKeepsStackLength ==
    StatementDone => Len(stack) = Top(marks).len

\* An assignment to a local, as a statement, has just run and popped its value.
C1_Witness ==
    /\ StatementDone
    /\ Executed(OpPop)
    /\ Ip >= 3 /\ Byte(Ip - 3) = OpSetLocal
    /\ Len(stack) = Top(marks).len

\* C2: every call of interpret starts with only the callee on the operand
\* stack and with exactly one active frame (frame_count = 1, ip = 0,
\* stack_offset = 0), and with the globals the earlier calls left.
C2_InterpretStartsWithOneFrame ==
    (last.kind = "interpret" /\ status = "running") =>
        /\ stack = <<Function(Frame.function)>>
        /\ frame_count = 1
        /\ Frame.ip = 0
        /\ Frame.stack_offset = 0
        /\ globals = last.globals

\* C3: a Call of a function with the matching arity pushes a frame with
\* ip = 0 and stack_offset = len - argc - 1; a Return in a frame that is not
\* the last one drops the frame, truncates the stack to the frame's
\* stack_offset, pushes the returned value and goes on in the caller.
C3_CallPushesReturnPops ==
    /\ (/\ Executed(OpCall)
        /\ LastCallee.t = "fun"
        /\ LastCallee.f.arity = LastOperand(1)
        /\ last.frame_count < FRAMES_MAX)
       => /\ status = "running"
          /\ frame_count = last.frame_count + 1
          /\ Frame = [function |-> LastCallee.f, ip |-> 0,
                      stack_offset |-> Len(last.stack) - LastOperand(1) - 1]
          /\ LastFrame.ip = last.ip + 2
          /\ stack = last.stack
    /\ (Executed(OpReturn) /\ calls = 1 /\ last.frame_count > 1)
       => /\ status = "running"
          /\ frame_count = last.frame_count - 1
          /\ stack = Append(SubSeq(last.stack, 1, LastFrame.stack_offset),
                            Top(last.stack))

\* C4: a Call whose callee is a function of another arity than argc, or
\* neither a function nor a native function, ends the interpretation with a
\* runtime error and pushes no frame.
C4_BadCallIsRuntimeError ==
    (/\ Executed(OpCall)
     /\ IF LastCallee.t = "fun" THEN LastCallee.f.arity # LastOperand(1)
        ELSE LastCallee.t # "native")
    => /\ status = "error"
       /\ diag # <<>>
       /\ frame_count = last.frame_count
       /\ LastFrame.ip = last.ip + 2

\* A function of arity 1 was called with no argument.
C4_Witness ==
    /\ Executed(OpCall)
    /\ LastCallee.t = "fun"
    /\ LastCallee.f.arity = 1
    /\ LastOperand(1) = 0
    /\ status = "error"

\* C5: a frame that would be pushed when all FRAMES_MAX frames are in use,
\* by a Call or by interpret, gives a runtime error instead, and nothing is
\* stored at or past the end of the frame array.
C5_FullFrameArrayIsRuntimeError ==
    /\ (Executed(OpCall) /\ LastCallee.t = "fun" /\ last.frame_count = FRAMES_MAX)
       => status = "error"
    /\ (last.kind = "interpret" /\ last.frame_count = FRAMES_MAX)
       => status = "error"

\* The instruction executed last had to raise a runtime error.
Raises ==
    \/ /\ \E op \in {OpSubtract, OpMultiply, OpDivide, OpGreater, OpLess} : Executed(op)
       /\ ~(IsNumber(Top(last.stack)) /\ IsNumber(last.stack[Len(last.stack) - 1]))
    \/ /\ Executed(OpAdd)
       /\ ~(IsNumber(Top(last.stack)) /\ IsNumber(last.stack[Len(last.stack) - 1]))
       /\ ~(IsString(Top(last.stack)) /\ IsString(last.stack[Len(last.stack) - 1]))
    \/ /\ Executed(OpNegate)
       /\ ~IsNumber(Top(last.stack)) /\ ~IsString(Top(last.stack))
    \/ /\ Executed(OpGetGlobal) \/ Executed(OpSetGlobal)
       /\ LastConstant.s \notin DOMAIN last.globals

\* C6: once an instruction raises a runtime error (operands of the wrong
\* type, an undefined global read or written), the interpretation is over
\* with RuntimeError: that instruction is the last one executed, one error is
\* reported, and what was printed and the globals are as before it.
C6_RuntimeErrorsFailFast ==
    (Raises \/ diag # <<>>) =>
        /\ status = "error"
        /\ result = NoResult
        /\ Len(diag) = 1
        /\ out = last.out
        /\ globals = last.globals

\* Negating nil failed after one value was printed and before a later Print.
C6_Witness ==
    /\ status = "error"
    /\ Executed(OpNegate)
    /\ Top(last.stack) = Nil
    /\ Len(out) = 1
    /\ \E i \in (last.ip + 2)..Len(LastCode) : LastCode[i] = OpPrint

\* C7: the line reported for a runtime error is line_at(ip - 1) in the chunk
\* of the topmost frame, the line of the last byte read for the failing
\* instruction, never the line of the instruction after it.
C7_ErrorLineIsTheInstructionsLine ==
    (status = "error" /\ diag # <<>>) =>
        Top(diag).line = line_at(LastFrame.function.chunk, LastFrame.ip - 1)

\* C8: SetGlobal of a name that is not in globals is a runtime error and
\* leaves globals as they were; SetGlobal of a name that is in globals
\* stores the top of the stack under it and leaves the stack as it was.
C8_SetGlobalAssignsOnlyDefinedNames ==
    Executed(OpSetGlobal) =>
        IF LastConstant.s \in DOMAIN last.globals
        THEN /\ status = "running"
             /\ globals = [last.globals EXCEPT ![LastConstant.s] = Top(last.stack)]
             /\ stack = last.stack
        ELSE /\ status = "error"
             /\ globals = last.globals

\* The assignment to a name never defined failed and defined nothing.
C8_Witness ==
    /\ Executed(OpSetGlobal)
    /\ LastConstant.s \notin DOMAIN globals
    /\ status = "error"

\* C9: is_falsey holds of Nil and of Boolean(false) and of no other value
\* (no number, 0 included, no string, the empty one included, no function);
\* Not pushes it and JumpIfFalse jumps by it.
C9_OnlyNilAndFalseAreFalsey ==
    /\ \A i \in DOMAIN stack : is_falsey(stack[i]) <=> stack[i] \in Falsey
    /\ Executed(OpNot) =>
          stack = Append(SubSeq(last.stack, 1, Len(last.stack) - 1),
                         Boolean(Top(last.stack) \in Falsey))
    /\ Executed(OpJumpIfFalse) =>
          /\ stack = last.stack
          /\ LastFrame.ip = IF Top(last.stack) \in Falsey
                            THEN last.ip + 3 + u16_from_ne_bytes(LastOperand(1),
                                                                 LastOperand(2))
                            ELSE last.ip + 3

\* Not of the number 0 pushed false.
C9_Witness ==
    /\ Executed(OpNot)
    /\ Top(last.stack) = Number(0)
    /\ Top(stack) = Boolean(FALSE)

\* Whether a NaN is the value or is held by it, among the constants of a
\* function or of a function among them.
RECURSIVE HoldsNaN(_)
HoldsNaN(v) ==
    CASE v.t = "num" -> v.k = "nan"
      [] v.t = "fun" -> \E i \in DOMAIN v.f.chunk.constants :
                            HoldsNaN(v.f.chunk.constants[i])
      [] OTHER       -> FALSE

\* What the claims about equality say of every pair of values but
\* reflexivity: symmetry, no equality across variants, strings by content,
\* and the Equal instruction pushing it.
EqualityOnPairs ==
    /\ \A i, j \in DOMAIN stack :
          /\ ValueEq(stack[i], stack[j]) = ValueEq(stack[j], stack[i])
          /\ stack[i].t # stack[j].t => ~ValueEq(stack[i], stack[j])
          /\ (IsString(stack[i]) /\ IsString(stack[j])) =>
                (ValueEq(stack[i], stack[j]) <=> stack[i].s = stack[j].s)
    /\ Executed(OpEqual) =>
          stack = Append(SubSeq(last.stack, 1, Len(last.stack) - 2),
                         Boolean(ValueEq(last.stack[Len(last.stack) - 1],
                                         Top(last.stack))))

Reported(message) ==
    \E i \in DOMAIN compiled.diags : compiled.diags[i].message = message

\* The interpretation of the program compiled from `source` ended with Ok.
RanToTheEnd(source) == compiled.source = source /\ status = "ok"

\* The operands of the binary instruction executed last, and the stack below them.
LastLeft == last.stack[Len(last.stack) - 1]

LastRight == Top(last.stack)

LastBelow(n) == SubSeq(last.stack, 1, Len(last.stack) - n)

\* C11: Add pops b, then a; when both are strings it pushes a followed by b,
\* when both are numbers their sum, and in every other case it raises the
\* runtime error "Operands have invalid types" and pushes nothing.
C11_AddConcatenatesOrSums ==
    Executed(OpAdd) =>
        IF IsString(LastLeft) /\ IsString(LastRight)
        THEN /\ status = "running"
             /\ stack = Append(LastBelow(2), String(LastLeft.s \o LastRight.s))
        ELSE IF IsNumber(LastLeft) /\ IsNumber(LastRight)
        THEN /\ status = "running"
             /\ stack = Append(LastBelow(2), NumAdd(LastLeft, LastRight))
        ELSE /\ status = "error"
             /\ Top(diag).message = "Operands have invalid types"
             /\ stack = LastBelow(2)

\* "foo" + "bar" gave "foobar".
C11_Witness ==
    /\ Executed(OpAdd)
    /\ LastLeft = String(<<"f", "o", "o">>)
    /\ LastRight = String(<<"b", "a", "r">>)
    /\ Top(stack) = String(<<"f", "o", "o", "b", "a", "r">>)

\* s with its characters in reverse order.
Reversed(s) == [i \in 1..Len(s) |-> s[Len(s) + 1 - i]]

\* C12: Negate replaces the top of the stack, a number by its negation and a
\* string by its characters reversed, and for any other value raises a
\* runtime error and leaves the stack as it was; negating twice gives the
\* number or the string back; the stack keeps its length.
C12_NegateInPlace ==
    Executed(OpNegate) =>
        /\ Len(stack) = Len(last.stack)
        /\ CASE IsNumber(LastRight) ->
                    /\ status = "running"
                    /\ stack = Append(LastBelow(1), NumSub(Number(0), LastRight))
                    /\ NumNeg(Top(stack)) = LastRight
             [] IsString(LastRight) ->
                    /\ status = "running"
                    /\ stack = Append(LastBelow(1), String(Reversed(LastRight.s)))
                    /\ Reverse(Top(stack).s) = LastRight.s
             [] OTHER ->
                    /\ status = "error"
                    /\ stack = last.stack

\* The second of two Negates gave "ab" back from "ba".
C12_Witness ==
    /\ Executed(OpNegate)
    /\ LastRight = String(<<"b", "a">>)
    /\ Top(stack) = String(<<"a", "b">>)
    /\ last.ip >= 1 /\ LastCode[last.ip] = OpNegate

\* C13: compile returns a function exactly when the compilation recorded no
\* error: had_error is set as soon as an error is reported and stays set,
\* and compile returns None whenever it is set.
C13_FunctionIffNoError ==
    compiled.called =>
        /\ compiled.some <=> ~compiled.had_error
        /\ compiled.had_error <=> compiled.diags # <<>>

\* Two errors were reported, with a synchronization between them, and
\* compile returned None.
C13_Witness ==
    /\ compiled.called
    /\ Len(compiled.diags) = 2
    /\ compiled.had_error
    /\ ~compiled.some

\* C14: a return statement in top-level code, blocks of it included, is
\* reported as "Cannot return from top-level code" and compile returns no
\* function; a return in a function body is not reported.
C14_ReturnOnlyInFunctions ==
    compiled.called =>
        /\ compiled.source \in TopLevelReturnSources =>
              Reported("Cannot return from top-level code") /\ ~compiled.some
        /\ compiled.source \in FunctionReturnSources =>
              compiled.diags = <<>> /\ compiled.some
        /\ Reported("Cannot return from top-level code") =>
              compiled.source \in TopLevelReturnSources

\* A return in a top-level block was reported.
C14_Witness ==
    /\ compiled.source = <<"{", " ", "r", "e", "t", "u", "r", "n", " ", "1", ";", " ", "}">>
    /\ Reported("Cannot return from top-level code")
    /\ ~compiled.some

\* C15: a local declared under the name of a local of the same scope is
\* reported as "Variable with this name already exists in the current
\* scope"; the same name declared in a nested scope is accepted.
C15_NoDuplicateLocalInOneScope ==
    compiled.called =>
        /\ compiled.source \in DuplicateLocalSources =>
              /\ Reported("Variable with this name already exists in the current scope")
              /\ ~compiled.some
        /\ compiled.source \in NestedLocalSources =>
              compiled.diags = <<>> /\ compiled.some
        /\ Reported("Variable with this name already exists in the current scope") =>
              compiled.source \in DuplicateLocalSources

\* { var a = 1; var a = 2; } was reported.
C15_Witness ==
    /\ compiled.source = <<"{", " ", "v", "a", "r", " ", "a", " ", "=", " ", "1", ";", " ", "v", "a", "r", " ", "a", " ", "=", " ", "2", ";", " ", "}">>
    /\ Reported("Variable with this name already exists in the current scope")
    /\ ~compiled.some

\* C16: a local read by name in its own initializer is reported as a compile
\* error; read after define_variable marked it initialized, it resolves
\* with no error.
C16_NoReadInOwnInitializer ==
    compiled.called =>
        /\ compiled.source \in OwnInitializerSources =>
              /\ Reported("Cannot read local variable in its own initializer")
              /\ ~compiled.some
        /\ compiled.source \in InitializedLocalSources =>
              compiled.diags = <<>> /\ compiled.some
        /\ Reported("Cannot read local variable in its own initializer") =>
              compiled.source \in OwnInitializerSources

\* { var a = a; } was reported.
C16_Witness ==
    /\ compiled.source = <<"{", " ", "v", "a", "r", " ", "a", " ", "=", " ", "a", ";", " ", "}">>
    /\ Reported("Cannot read local variable in its own initializer")
    /\ ~compiled.some

\* C17: a name reads the innermost declaration of it, and the outer one
\* again after the block: var a = 1; { var a = 2; print a; } print a;
\* prints 2 and then 1.
C17_ShadowPrintsTwoThenOne ==
    RanToTheEnd(SrcShadow) => out = << <<"2">>, <<"1">> >>

C19_InvalidAssignmentTargetReported ==
    (compiled.called /\ compiled.source \in InvalidTargetSources) =>
        Reported("Invalid assignment target")

\* C20: a call with more than 255 arguments and a function with more than
\* 255 parameters are reported as compile errors, the u8 counter neither
\* overflows nor wraps, and no function is produced.
C20_CountersStayInU8 ==
    (compiled.called /\ compiled.source \in TooManySources) =>
        /\ ~compiled.overflow
        /\ \/ Reported("Can't have more than 255 arguments")
           \/ Reported("Can't have more than 255 function parameters")
        /\ ~compiled.some

(***************************************************************************)
(* A Chunk written by its caller, a byte or a slice at a time, each with   *)
(* the line the caller chooses; written.lines keeps the line given for     *)
(* each byte.                                                              *)
(***************************************************************************)
MaxCode == 5
MaxLine == 3
MaxSlice == 2
\* One byte stands for all: the line table does not look at the byte written.
WrittenBytes == {OpNil}
WrittenLines == 1..MaxLine
WrittenSlices == UNION {[1..n -> WrittenBytes] : n \in 0..MaxSlice}

ChunkNew == written = [chunk |-> EmptyChunk, lines |-> <<>>, op |-> "new"]

Write ==
    /\ Len(written.chunk.code) < MaxCode
    /\ \E byte \in WrittenBytes, line \in WrittenLines :
          written' = [chunk |-> write(written.chunk, byte, line),
                      lines |-> Append(written.lines, line),
                      op |-> "write"]
    /\ UNCHANGED <<vm_vars, scan>>

WriteSlice ==
    /\ \E data \in WrittenSlices, line \in WrittenLines :
          /\ Len(written.chunk.code) + Len(data) <= MaxCode
          /\ written' = [chunk |-> write_slice(written.chunk, data, line),
                         lines |-> written.lines \o [i \in 1..Len(data) |-> line],
                         op |-> "write_slice"]
    /\ UNCHANGED <<vm_vars, scan>>

ChunkInit == VmNew /\ queue = <<>> /\ scan = NotScanning /\ ChunkNew
ChunkNext == Write \/ WriteSlice
ChunkSpec == ChunkInit /\ [][ChunkNext]_vars

(***************************************************************************)
(* Properties of the Scanner, read off scan after any number of calls.     *)
(***************************************************************************)
\* The end of the run of digits that starts at offset i (0-based, exclusive).
DigitRunEnd(src, i) ==
    CHOOSE j \in i..Len(src) :
        /\ \A k \in (i + 1)..j : src[k] \in Digits
        /\ j = Len(src) \/ src[j + 1] \notin Digits

\* The end of the number literal that starts at offset i: digits, and a
\* fractional part when a `.` and at least one digit follow them.
NumberEnd(src, i) ==
    IF /\ DigitRunEnd(src, i) + 1 < Len(src)
       /\ src[DigitRunEnd(src, i) + 1] = "."
       /\ src[DigitRunEnd(src, i) + 2] \in Digits
    THEN DigitRunEnd(src, DigitRunEnd(src, i) + 1)
    ELSE DigitRunEnd(src, i)

\* The last call of next_token returned a token.
Scanned == scan.called > 0 /\ scan.token.ok

ScannedLexeme == lexeme(scan.source, scan.token.token)

\* The last call returned a token whose first character is one of chars.
ScannedFrom(chars) ==
    /\ Scanned
    /\ scan.token.token.start < Len(scan.source)
    /\ scan.source[scan.token.token.start + 1] \in chars

\* C21: a number literal, digits with an optional fractional part of a `.`
\* and at least one digit, is scanned as one Number token that spans the
\* whole literal; a `.` no digit follows is not part of the number.
C21_FractionIsOneNumberToken ==
    ScannedFrom(Digits) =>
        /\ scan.token.token.token_type = "Number"
        /\ scan.token.token.end = NumberEnd(scan.source, scan.token.token.start)

\* C22: once the scanner is at the end of the source, next_token returns Ok
\* with an Eof token, and every call after an Eof returns the same Eof
\* token again: same start, same end, same line.
C22_EofIsIdempotent ==
    scan.called > 0 =>
        /\ scan.from.current >= Len(scan.source) =>
              /\ IsEof(scan.token)
              /\ scan.token.token.start = scan.from.current
              /\ scan.token.token.end = scan.from.current
              /\ scan.token.token.line = scan.from.line
        /\ IsEof(scan.earlier) =>
              /\ scan.token.ok
              /\ scan.token.token = scan.earlier.token

\* Eof was returned three times over, at the end of a source that is not empty.
C22_Witness ==
    /\ scan.source # <<>>
    /\ scan.eofs >= 3
    /\ IsEof(scan.earlier)
    /\ scan.token.token = scan.earlier.token

\* C23: a lexeme that starts with a letter or an underscore has the token
\* type of a reserved word exactly when it is that word, the whole of it;
\* every other such lexeme, the prefixes and the extensions of the reserved
\* words among them, is an Identifier.
C23_KeywordsAreWholeWords ==
    ScannedFrom(Letters \cup {"_"}) =>
        IF ScannedLexeme \in KeywordLexemes
        THEN \E k \in Keywords : /\ k[1] = ScannedLexeme
                                 /\ k[2] = scan.token.token.token_type
        ELSE scan.token.token.token_type = "Identifier"

\* `tru` was scanned as an Identifier and `true`, after it, as True.
C23_Witness ==
    /\ Scanned
    /\ scan.earlier.ok
    /\ lexeme(scan.source, scan.earlier.token) = <<"t", "r", "u">>
    /\ scan.earlier.token.token_type = "Identifier"
    /\ ScannedLexeme = <<"t", "r", "u", "e">>
    /\ scan.token.token.token_type = "True"

\* The newlines among the first n characters of the source.
NewlinesBefore(src, n) == Cardinality({i \in 1..n : src[i] = "\n"})

\* C24: after any number of calls the scanner's line is 1 plus the number
\* of newlines it has moved past, those in whitespace, in strings and at
\* the end of comments alike, and a token carries the line of its end.
C24_LineCountsNewlines ==
    /\ scan.called > 0 =>
          scan.scanner.line = 1 + NewlinesBefore(scan.source, scan.scanner.current)
    /\ Scanned =>
          scan.token.token.line = 1 + NewlinesBefore(scan.source, scan.token.token.end)

\* A string with a newline in it was scanned: it starts on line 1 and the
\* token carries line 2.
C24_Witness ==
    /\ Scanned
    /\ scan.token.token.token_type = "String"
    /\ NewlinesBefore(scan.source, scan.token.token.start) = 0
    /\ scan.token.token.line = 2

(***************************************************************************)
(* Properties of the Chunk's line table, read off written.                 *)
(***************************************************************************)
WrittenOffsets == 0..(Len(written.chunk.code) - 1)

NonDecreasing(lines) == \A i, j \in 1..Len(lines) : i <= j => lines[i] <= lines[j]

\* C25: after any writes, of single bytes and of slices, line_at of every
\* offset of the code is the line that was passed to the write that
\* appended the byte at that offset.
C25_LineAtIsTheWrittenLine ==
    \A offset \in WrittenOffsets :
        line_at(written.chunk, offset) = written.lines[offset + 1]

\* A slice was written last, a run-length entry covers more than one byte,
\* and the lines went down as well as up.
C25_Witness ==
    /\ written.op = "write_slice"
    /\ Len(written.chunk.code) >= 4
    /\ Len(written.chunk.lines) \in 3..(Len(written.chunk.code) - 1)
    /\ ~NonDecreasing(written.lines)
    /\ written.lines[Len(written.lines)] = written.lines[1]

\* C26 as claimed: in every chunk line_at does not decrease as the offset
\* grows.
C26_LineAtMonotonic ==
    \A i, j \in WrittenOffsets :
        i <= j => line_at(written.chunk, i) <= line_at(written.chunk, j)

\* C26: in a chunk whose writes were given lines that never decrease,
\* line_at does not decrease as the offset grows.
C26_LineAtMonotonicWhenWritesAre ==
    NonDecreasing(written.lines) =>
        \A i, j \in WrittenOffsets :
            i <= j => line_at(written.chunk, i) <= line_at(written.chunk, j)

\* Three different lines were written in rising order, one of them twice.
C26_Witness ==
    /\ NonDecreasing(written.lines)
    /\ Len(written.chunk.lines) = 3
    /\ Len(written.chunk.code) >= 4
    /\ line_at(written.chunk, 0) < line_at(written.chunk, Len(written.chunk.code) - 1)

(***************************************************************************)
(* Properties of control flow and of Return.                               *)
(***************************************************************************)
\* C27: a for loop runs its initializer once, then tests the condition,
\* runs the body and the increment while it is truthy, and leaves with the
\* stack as it found it, so that
\* var x = 0; for (var i = 1; i <= 3; i = i + 1) { x = x + i; } print x;
\* prints 6.
C27_ForPrintsSix ==
    RanToTheEnd(SrcFor) => out = << <<"6">> >>

\* Return was executed in the frame interpret made: the frame at the bottom
\* of the stack, whose function is the one in slot 0.
ReturnedFromScript ==
    /\ Executed(OpReturn)
    /\ last.stack # <<>>
    /\ LastFrame.stack_offset = 0
    /\ last.stack[1] = Function(LastFrame.function)

\* C28: a Return in the frame interpret made ends the run, and interpret
\* returns Ok with the value that was on top of the stack; for a compiled
\* script that value is Nil, and for the chunks of the tests basic_math and
\* add_long_constants it is what their instructions compute.
C28_ReturnYieldsTheTop ==
    /\ ReturnedFromScript =>
          /\ status = "ok"
          /\ result = Some(Top(last.stack))
    /\ (ReturnedFromScript /\ compiled.some) => result = Some(Nil)
    /\ (ReturnedFromScript /\ LastFrame.function.chunk = AddLongConstantsChunk) =>
          result = Some(Number(45))
    /\ (ReturnedFromScript /\ LastFrame.function.chunk = BasicMathChunk) =>
          result = Some(Fin(-23, 28))

\* The chunk of add_long_constants returned, with more than its function
\* on the stack.
C28_Witness ==
    /\ ReturnedFromScript
    /\ LastFrame.function.chunk = AddLongConstantsChunk
    /\ Len(last.stack) = 2
    /\ status = "ok"

\* The if statements whose code the current frame has just left.
BranchesDone ==
    {i \in DOMAIN marks : /\ status = "running"
                          /\ marks[i].kind = "if"
                          /\ marks[i].fc = frame_count
                          /\ marks[i].end = Ip}

\* C29: JumpIfFalse leaves the stack as it is; when an if statement has run
\* to its end, the condition was popped exactly once, by the Pop before the
\* then branch if it was truthy and by the Pop at the target of the then
\* jump if it was falsey, no instruction of the other branch ran, and the
\* stack is as long as it was before the condition was evaluated.
C29_IfPopsConditionOnce ==
    /\ Executed(OpJumpIfFalse) => stack = last.stack
    /\ \A i \in BranchesDone :
          /\ Len(stack) = marks[i].len
          /\ marks[i].on_condition
          /\ marks[i].cond \in {"truthy", "falsey"}
          /\ marks[i].cond = "truthy" =>
                /\ marks[i].then_pops = 1 /\ marks[i].else_pops = 0
                /\ ~marks[i].in_else
                /\ marks[i].jif + 4 < marks[i].jump => marks[i].in_then
          /\ marks[i].cond = "falsey" =>
                /\ marks[i].then_pops = 0 /\ marks[i].else_pops = 1
                /\ ~marks[i].in_then
                /\ marks[i].jump + 4 < marks[i].end => marks[i].in_else

\* An if inside the else branch of another has run its then branch, and
\* both statements end here: the outer condition was falsey, the inner truthy.
C29_Witness ==
    \E i, j \in BranchesDone :
        /\ i < j
        /\ marks[i].cond = "falsey" /\ marks[i].in_else
        /\ marks[j].cond = "truthy" /\ marks[j].in_then
        /\ Len(stack) = marks[i].len

(***************************************************************************)
(* Properties of the jumps in the functions compile returns.               *)
(***************************************************************************)
\* The jumps emitted and the jumps patched in the program being run.
EmittedJumps == {s \in stmts : s.kind = "emitted"}

PatchedJumps == {s \in stmts : s.kind = "jump"}

\* The operand of the jump at offset `at` of a function's code, as read_u16
\* reads it.
JumpOperand(f, at) == u16_from_ne_bytes(f.chunk.code[at + 2], f.chunk.code[at + 3])

\* A jump has just been taken.
Jumped ==
    \/ Executed(OpJump)
    \/ Executed(OpJumpIfFalse) /\ Top(last.stack) \in Falsey

\* C30: in a function compile returned, every jump emit_jump wrote has
\* been patched, its operand is the distance from the end of the
\* instruction to the place the jump was patched to land on, within
\* 0..65535, and the VM lands there when it takes the jump; a jump longer
\* than that is reported as an error and compile returns no function.
C30_JumpsArePatchedOrRejected ==
    /\ \A e \in EmittedJumps :
          \E j \in PatchedJumps : j.f = e.f /\ j.start = e.start
    /\ \A j \in PatchedJumps :
          /\ j.f.chunk.code[j.start + 1] \in {OpJump, OpJumpIfFalse}
          /\ j.end - (j.start + 3) \in 0..U16_MAX
          /\ JumpOperand(j.f, j.start) = j.end - (j.start + 3)
    /\ Jumped =>
          \E j \in PatchedJumps : /\ j.f = LastFrame.function
                                  /\ j.start = last.ip
                                  /\ Ip = j.end
    /\ Reported("Jump is too long") => ~compiled.some

\* The JumpIfFalse of a compiled if has jumped over exactly u16::MAX bytes.
C30_Witness ==
    /\ Executed(OpJumpIfFalse)
    /\ compiled.some
    /\ Ip - (last.ip + 3) = U16_MAX
    /\ JumpOperand(LastFrame.function, last.ip) = U16_MAX

\* What compile on the short ifs gives by itself is what the construction
\* of the long ifs gives for the same distance.
LongIfAsCompiled ==
    \A distance \in ShortDistances :
        (compiled.source = LongIfSource(distance) /\ last.kind = "interpret") =>
            /\ Frame.function = long_if_state(distance).fn
            /\ stmts = long_if_state(distance).stmts
            /\ compiled = program_of(long_if_state(distance)).compiled

\* The loops emitted in the program being run.
EmittedLoops == {s \in stmts : s.kind = "loop"}

\* C31: a jump patched when the code was T bytes long makes the VM go on
\* at ip = T when it is taken, so that a jump patched right after it was
\* emitted changes nothing but the ip, which goes to the next instruction;
\* a Loop emitted by emit_loop(loop_start) makes the VM go on at loop_start.
C31_OffsetsAgree ==
    /\ Jumped =>
          \E j \in PatchedJumps : /\ j.f = LastFrame.function
                                  /\ j.start = last.ip
                                  /\ Ip = j.end
                                  /\ j.end = j.start + 3 =>
                                        /\ Ip = last.ip + 3
                                        /\ stack = last.stack
                                        /\ globals = last.globals
                                        /\ out = last.out
    /\ Executed(OpLoop) =>
          \E l \in EmittedLoops : /\ l.f = LastFrame.function
                                  /\ l.start = last.ip
                                  /\ Ip = l.end

\* The Loop at the end of a for body has gone back to the increment clause,
\* which lies after the condition the first Loop of the statement goes to.
C31_Witness ==
    /\ Executed(OpLoop)
    /\ compiled.source = SrcFor
    /\ \E l, m \in EmittedLoops : /\ l.start = last.ip
                                  /\ Ip = l.end
                                  /\ m.start < l.start
                                  /\ m.end < l.end

\* The `and` and `or` expressions of this frame whose code has just run to
\* its end.
LogicDone ==
    {i \in DOMAIN marks : /\ status = "running"
                          /\ marks[i].kind \in {"and", "or"}
                          /\ marks[i].fc = frame_count
                          /\ marks[i].end = Ip}

\* Whether the left operand, on top of the stack at the JumpIfFalse, decides
\* the expression without the right one.
ShortCircuits(m) ==
    IF m.kind = "and" THEN Top(m.stack) \in Falsey ELSE Top(m.stack) \notin Falsey

\* What the instruction executed last has pushed, when it is the whole code
\* of an operand: a literal, a constant or a global.
Pushed ==
    (OpNil :> Nil) @@ (OpTrue :> Boolean(TRUE)) @@ (OpFalse :> Boolean(FALSE))
    @@ (IF last.op = OpConstant THEN OpConstant :> LastConstant ELSE <<>>)
    @@ (IF last.op = OpGetGlobal THEN OpGetGlobal :> last.globals[LastConstant.s]
        ELSE <<>>)

\* C32: when the code of `a and b` or `a or b` has run to its end, the stack
\* is the one below a with exactly one value on it: a itself, no instruction
\* of b having run, when a is falsey for `and` and truthy for `or`; otherwise
\* what the code of b left on the stack below a after one Pop had removed a.
C32_LogicLeavesOneValue ==
    \A i \in LogicDone :
        /\ marks[i].stack # <<>>
        /\ Len(stack) = Len(marks[i].stack)
        /\ SubSeq(stack, 1, Len(stack) - 1) =
               SubSeq(marks[i].stack, 1, Len(stack) - 1)
        /\ ShortCircuits(marks[i]) =>
              /\ Top(stack) = Top(marks[i].stack)
              /\ marks[i].then_pops = 0
              /\ ~marks[i].in_then
        /\ ~ShortCircuits(marks[i]) =>
              /\ marks[i].then_pops = 1
              /\ marks[i].on_condition
              /\ marks[i].in_then
              /\ last.ip >= marks[i].jump
              /\ last.ip = marks[i].jump /\ last.op \in DOMAIN Pushed =>
                    Top(stack) = Pushed[last.op]

\* `nil or g` has left the value of the global g, which is 1.
C32_Witness ==
    \E i \in LogicDone :
        /\ ~ShortCircuits(marks[i])
        /\ marks[i].kind = "or"
        /\ Top(marks[i].stack) = Nil
        /\ Executed(OpGetGlobal)
        /\ Top(stack) = Number(1)

\* The level of a binary operator in the order Equality < Comparison < Term
\* < Factor.
Level(op) ==
    CASE op \in {<<"=", "=">>, <<"!", "=">>}                  -> 1
      [] op \in {<<"<">>, <<">">>, <<"<", "=">>, <<">", "=">>} -> 2
      [] op \in {<<"+">>, <<"-">>}                            -> 3
      [] op \in {<<"*">>, <<"/">>}                            -> 4

\* The function interpret has just been given is the one compile returned
\* for `1 op1 2 op2 3;`.
TripleCompiled(op1, op2) ==
    /\ last.kind = "interpret"
    /\ compiled.some
    /\ compiled.source = Triple(op1, op2)

\* C33: for binary operators op1 and op2, compile returns for `1 op1 2 op2 3;`
\* the function it returns for `1 op1 (2 op2 3);` when op2 is of a higher
\* level than op1 and the one it returns for `(1 op1 2) op2 3;` otherwise,
\* and these two differ; in `1 + 2 * 3` the Multiply comes before the Add.
C33_BinaryGroupsByPrecedence ==
    \A op1, op2 \in BinaryOperators :
        TripleCompiled(op1, op2) =>
            /\ Frame.function =
                  IF Level(op2) > Level(op1)
                  THEN Compiled(RightGrouped(op1, op2)).function
                  ELSE Compiled(LeftGrouped(op1, op2)).function
            /\ Compiled(RightGrouped(op1, op2)).function #
                  Compiled(LeftGrouped(op1, op2)).function
            /\ (op1 = <<"+">> /\ op2 = <<"*">>) =>
                  SubSeq(Frame.function.chunk.code, 7, 8) = <<OpMultiply, OpAdd>>

\* `1 - 2 - 3;` has been compiled and its first Subtract has just run on 1
\* and 2, the second one being still to come after the constant 3.
C33_Witness ==
    /\ compiled.some
    /\ compiled.source = Triple(<<"-">>, <<"-">>)
    /\ Executed(OpSubtract)
    /\ Top(stack) = Number(-1)
    /\ Byte(Ip) = OpConstant
    /\ Byte(Ip + 2) = OpSubtract

\* What happened to the panic mode in the compilation at hand.
Events == compiled.events

\* The panic mode before the i-th event as the events before it give it:
\* set when an error has been reported and the flag not cleared since.
InPanic(i) ==
    \E j \in 1..(i - 1) :
        /\ Events[j].e = "reported"
        /\ \A k \in (j + 1)..(i - 1) : Events[k].e # "cleared"

\* The tokens synchronize may stop before.
StatementStarts == {"Class", "Fun", "Var", "For", "If", "While", "Print", "Return"}

\* The messages of the errors reported, in order.
RECURSIVE ReportedMessages(_)
ReportedMessages(n) ==
    IF n = 0 THEN <<>>
    ELSE IF Events[n].e = "reported"
         THEN Append(ReportedMessages(n - 1), Events[n].message)
         ELSE ReportedMessages(n - 1)

\* C34: throughout a compilation the panic mode is set exactly when an error
\* has been reported and synchronize has not cleared the flag since; an
\* error is reported, with one diagnostic, when the panic mode is not set
\* and dropped when it is, so that no two errors are reported without a
\* synchronization between them; and synchronize stops with the previous
\* token a `;`, or the current one at the start of a statement or Eof.
C34_PanicModeDropsErrors ==
    compiled.called =>
        /\ \A i \in DOMAIN Events :
              /\ Events[i].panic = InPanic(i)
              /\ Events[i].e = "reported" => ~InPanic(i)
              /\ Events[i].e = "dropped" => InPanic(i)
              /\ Events[i].e = "cleared" =>
                    \E j \in (i + 1)..Len(Events) :
                        /\ Events[j].e = "stopped"
                        /\ \A k \in (i + 1)..(j - 1) :
                              Events[k].e \in {"reported", "dropped"}
              /\ Events[i].e = "stopped" =>
                    \/ Events[i].previous = "Semicolon"
                    \/ Events[i].current \in StatementStarts
                    \/ Events[i].current = "Eof"
        /\ \A i, j \in DOMAIN Events :
              (i < j /\ Events[i].e = "reported" /\ Events[j].e = "reported") =>
                  \E k \in (i + 1)..(j - 1) : Events[k].e = "cleared"
        /\ ReportedMessages(Len(Events)) =
              [i \in DOMAIN compiled.diags |-> compiled.diags[i].message]

\* A compilation reported an error, dropped the next one, synchronized to
\* the start of a statement and reported an error again.
C34_Witness ==
    /\ compiled.called
    /\ \E i, j, k, l, m \in DOMAIN Events :
          /\ i < j /\ j < k /\ k < l /\ l < m
          /\ Events[i].e = "reported"
          /\ Events[j].e = "dropped"
          /\ Events[k].e = "cleared"
          /\ Events[l].e = "stopped" /\ Events[l].current \in StatementStarts
          /\ Events[m].e = "reported"

\* C35 as claimed: at no point of a compilation do the locals hold two named
\* entries of one name and one scope depth.
C35_NoTwoLocalsOfOneNameAndDepth ==
    compiled.called => compiled.doubles = {}

\* C35, amended: the locals hold two named entries of one name and one scope
\* depth only after an error has been reported, and so in no compilation
\* that returns a function.
C35_NoTwoLocalsUntilAnError ==
    compiled.called =>
        /\ \A d \in compiled.doubles : d.had_error
        /\ compiled.some => compiled.doubles = {}
        /\ compiled.source \in DuplicateLocalSources => compiled.doubles # {}

\* A name declared in a scope and again in a nested one has been compiled
\* to a function: two locals of one name, of different depths.
C35_Witness ==
    /\ compiled.called
    /\ compiled.source \in NestedLocalSources
    /\ compiled.some
    /\ compiled.doubles = {}
    /\ Executed(OpPop)

\* The locals of a sequence that are of a depth greater than d.
Deeper(locals, d) == {i \in DOMAIN locals : locals[i].depth > d}

\* C36: every call of end_scope in a compilation leaves scope_depth one
\* less, leaves of the locals exactly those whose depth does not exceed the
\* new scope_depth, in their places, emits one Pop for each local removed
\* and nothing else, and leaves the nameless slot 0 of depth 0 in place.
C36_EndScopePopsItsLocals ==
    compiled.called =>
        \A r \in compiled.scopes :
            /\ r.depth = r.depth_before - 1
            /\ Len(r.after) <= Len(r.before)
            /\ r.after = SubSeq(r.before, 1, Len(r.after))
            /\ Deeper(r.before, r.depth) = (Len(r.after) + 1)..Len(r.before)
            /\ Deeper(r.after, r.depth) = {}
            /\ r.emitted = [i \in 1..Cardinality(Deeper(r.before, r.depth)) |-> OpPop]
            /\ r.after # <<>>
            /\ r.after[1] = [named |-> FALSE, depth |-> 0]

\* The innermost block of `{ var a = 1; { var b = 1; { var a; var b; } } }`
\* has ended: its two locals removed with two Pops, the two of the blocks
\* around it and slot 0 kept.
C36_Witness ==
    /\ compiled.called
    /\ compiled.some
    /\ \E r \in compiled.scopes :
          /\ r.depth = 2
          /\ Len(r.before) = 5
          /\ Len(r.after) = 3
          /\ r.emitted = <<OpPop, OpPop>>
    /\ Executed(OpPop)

\* The GetLocal and SetLocal instructions of the program being run, each
\* with the position in the locals of the local the compiler resolved it to
\* (jif) and the place that local was defined at (jump).
LocalUses == {s \in stmts : s.kind = "use"}

ExecutedLocal == Executed(OpGetLocal) \/ Executed(OpSetLocal)

\* C37: when GetLocal k or SetLocal k has run in a function compile
\* returned, k is the position in the locals of the local the compiler
\* resolved the name to, stack_offset + k was a valid index of the stack,
\* and the stack entry there is the one the value of that local was left in
\* when it was defined, which GetLocal has pushed and SetLocal has written.
C37_SlotIsTheLocal ==
    (ExecutedLocal /\ compiled.some) =>
        /\ LastFrame.stack_offset + LastOperand(1) < Len(last.stack)
        /\ \E u \in LocalUses :
              /\ u.f = LastFrame.function
              /\ u.start = last.ip
              /\ u.jif = LastOperand(1)
              /\ \E x \in slots :
                    /\ x.fc = last.frame_count
                    /\ x.born = u.jump
                    /\ x.position = u.jif
                    /\ x.index = LastFrame.stack_offset + LastOperand(1)
        /\ Executed(OpGetLocal) =>
              stack = Append(last.stack,
                             last.stack[LastFrame.stack_offset + LastOperand(1) + 1])
        /\ Executed(OpSetLocal) =>
              stack = [last.stack EXCEPT
                         ![LastFrame.stack_offset + LastOperand(1) + 1] = Top(last.stack)]

\* C40: in every function compile returns, the operand of each GetLocal and
\* SetLocal is the position in the locals array of the local the compiler
\* resolved the name to.
C40_SlotIsThePosition ==
    compiled.some =>
        \A u \in LocalUses :
            /\ u.f.chunk.code[u.start + 1] \in {OpGetLocal, OpSetLocal}
            /\ u.f.chunk.code[u.start + 2] = u.jif

\* The bytes run reads after an opcode before it fetches the next one.
OperandBytes(op) ==
    CASE op \in {OpConstant, OpDefineGlobal, OpGetGlobal, OpSetGlobal, OpGetLocal,
                 OpSetLocal, OpCall}              -> 1
      [] op \in {OpJumpIfFalse, OpJump, OpLoop}   -> 2
      [] op = OpLongConstant                      -> 3
      [] OTHER                                    -> 0

\* The offsets up to which the code is decoded from its start, instruction
\* by instruction.
MaxDecoded == 64

\* Whether the instructions of the code from offset `from` on end exactly at ip.
RECURSIVE StartsAt(_, _, _)
StartsAt(code, from, ip) ==
    IF from >= ip THEN from = ip
    ELSE StartsAt(code, from + 1 + OperandBytes(code[from + 1]), ip)

\* The ip is where the instruction executed last leaves it: after the
\* instruction, at the place its jump was patched for or its loop emitted
\* for, or at the start of a function called.
IpFollows ==
    \/ last.kind = "interpret" /\ Ip = 0
    \/ last.kind = "instruction" /\ frame_count = last.frame_count + 1 /\ Ip = 0
    \/ /\ last.kind = "instruction"
       /\ frame_count = last.frame_count
       /\ \/ ~Jumped /\ ~Executed(OpLoop) /\ Ip = last.ip + 1 + OperandBytes(last.op)
          \/ Jumped /\ \E j \in PatchedJumps :
                           j.f = LastFrame.function /\ j.start = last.ip /\ j.end = Ip
          \/ Executed(OpLoop) /\ \E l \in EmittedLoops :
                           l.f = LastFrame.function /\ l.start = last.ip /\ l.end = Ip

\* C38: whenever run is about to fetch in a function compile returned, the
\* ip is within the code, is where the instructions before it end, and the
\* whole instruction lies within the code, which ends with Return; the
\* operand of a constant is an index of the constants and that of a global
\* a string constant, a local's slot is on the stack, and the stack holds
\* the values the instruction pops or peeks.
C38_FetchesAreWellFormed ==
    (compiled.some /\ status = "running") =>
        /\ Ready
        /\ Byte(Ip) \in {OpPop, OpReturn} => stack # <<>>
        /\ Byte(Ip) = OpSetGlobal => stack # <<>>
        /\ Ip + OperandBytes(Byte(Ip)) < Len(Chunk.code)
        /\ Chunk.code[Len(Chunk.code)] = OpReturn
        /\ IpFollows
        /\ Ip <= MaxDecoded => StartsAt(Chunk.code, 0, Ip)

\* A Loop of a compiled program has gone back to an instruction that the
\* code decodes to, a jump whose three bytes lie within the code.
C38_Witness ==
    /\ compiled.some
    /\ status = "running"
    /\ Executed(OpLoop)
    /\ Ip < last.ip
    /\ Ip <= MaxDecoded
    /\ StartsAt(Chunk.code, 0, Ip)
    /\ Byte(Ip + 3) = OpJumpIfFalse \/ Byte(Ip + 4) = OpJumpIfFalse
       \/ Byte(Ip + 5) = OpJumpIfFalse

\* What a loop of the parser has still to go through: the source bytes the
\* scanner has left, and the current token unless it is Eof.
Remaining(left, eof) == left + (IF eof THEN 0 ELSE 1)

\* The turns of a loop in the compilation at hand.
Turns(loop) == {t \in compiled.turns : t.loop = loop}

\* C39: compile has returned; every turn of the declaration loop, of block's
\* loop and of synchronize's loop began with a current token other than Eof
\* and consumed a token, every turn of advance's loop over scan errors
\* consumed a source byte, so that each loop took at most as many turns as
\* the source has bytes, and one more.
C39_CompileTerminates ==
    compiled.called =>
        /\ \A t \in compiled.turns :
              /\ t.loop \in {"declaration", "block", "synchronize"} =>
                    /\ ~t.eof_before
                    /\ Remaining(t.left_after, t.eof_after)
                          < Remaining(t.left_before, t.eof_before)
              /\ t.loop = "block" => t.left_before > 0
              /\ t.loop = "advance" => t.left_after < t.left_before
              /\ t.left_after >= 0
        /\ \A loop \in {"declaration", "block", "synchronize", "advance"} :
              Cardinality(Turns(loop)) <= Len(compiled.source) + 1

\* compile has returned without a program on a source that ends inside a
\* block: advance's loop, block's loop, synchronize's loop and the declaration
\* loop have each taken a turn, and a turn of the declaration loop ended at
\* Eof with no source left.
C39_Witness ==
    /\ compiled.called
    /\ ~compiled.some
    /\ compiled.source = SrcOpenBlock
    /\ Turns("block") # {}
    /\ Turns("synchronize") # {}
    /\ Turns("advance") # {}
    /\ \E t \in Turns("declaration") : t.eof_after /\ t.left_after = 0

====
